---- MODULE Spec2Model ----
(***************************************************************************)
(* Verification model of the semantic-search web service                   *)
(* (src/export-sql-chromadb/web_service): the auth / rate-limit            *)
(* middleware, the multi-model search handler with its round-robin merge,  *)
(* the single-model search handler's model resolution and caching, and the *)
(* persistence operations they call.                                       *)
(*                                                                         *)
(* The module holds several specifications over one set of variables:      *)
(*   SpecAuth   - requests passing auth_and_rate_limit_middleware          *)
(*   SpecMerge  - the limits and the merge of multi_model_search applied   *)
(*                to a wide family of per-model result lists               *)
(*   SpecMulti  - /search/multi handled request by request, with the       *)
(*                response cache, the history table and the admin's model  *)
(*                toggle                                                   *)
(*   SpecSingle - /search handled request by request, over the same cache, *)
(*                history table and model toggle                           *)
(*   SpecPage   - the pagination arithmetic of /search on drawn inputs     *)
(*   SpecVotes  - save_search_vote called over concurrent sqlite           *)
(*                connections                                              *)
(*   SpecIngest - runs of the ingest script (main, export_to_chroma) with  *)
(*                their export_jobs row                                    *)
(*   SpecApprovals - save_search with its search-count update, and         *)
(*                approve_query / reject_query, over sqlite connections    *)
(*   SpecUsage  - the rate-limit check and the admin pages reading and     *)
(*                incrementing api_token_usage across a UTC midnight       *)
(* Each specification leaves the variables of the others at their idle     *)
(* values.                                                                 *)
(***************************************************************************)
EXTENDS Integers, Sequences, FiniteSets, TLC

VARIABLES
    \* ---- auth middleware (SpecAuth) ----
    enable_api_auth,    \* settings.enable_api_auth
    now,                \* datetime.utcnow(), in abstract ticks
    api_users,          \* table api_users:  id -> row
    api_tokens,         \* table api_tokens: id -> row
    api_token_usage,    \* table api_token_usage: <<token_id, date>> -> request_count (0: no row)
    inflight,           \* requests handed to call_next and not yet returned
    last,               \* what the middleware did with the latest request
    last_headers,       \* rate-limit headers of the latest returned response
    arrivals,           \* per token: requests of today carrying it as a valid token on a protected path
    admitted,           \* per token: those of them that reached the handler
    nreq,               \* requests received so far
    \* ---- merge of multi_model_search on drawn inputs (SpecMerge) ----
    mg_in,              \* ordered_ids, top_k, settings.max_estimated_results, the collections
    mg_out,             \* the limits, per_model_results and combined_results computed from mg_in
    \* ---- /search/multi with cache, history and model toggle (SpecMulti) ----
    embedding_models,   \* table embedding_models: id -> [is_active]
    redis_client,       \* app_state["redis_client"] is set
    redis,              \* the cache entries [key, value]
    search_history,     \* table search_history, rows in insertion order
    mm,                 \* multi_model_search: the request in progress or last answered
    sd,                 \* search_documents: the request in progress or last answered
    served,             \* search requests received so far
    \* ---- pagination of /search on drawn inputs (SpecPage) ----
    pg_in,              \* page, page_size, top_k, the settings and the size of the collection
    pg_out,             \* n_results, the hits fetched, the page returned and its pagination info
    \* ---- the sqlite file shared by the connections of database.py ----
    db_writer,          \* the connection holding sqlite's write lock (0: none)
    \* ---- save_search_vote from concurrent requests (SpecVotes) ----
    search_votes,       \* table search_votes, the committed rows
    vote_calls,         \* per connection: the save_search_vote call it serves and its open transaction
    vote_log,           \* the committed save_search_vote calls, in commit order
    vote_seq,           \* save_search_vote calls begun so far; the AUTOINCREMENT source
    \* ---- the ingest script with job tracking (SpecIngest) ----
    export_jobs,        \* table export_jobs, rows by id
    job_status_log,     \* per job id: the statuses written to its row, in order
    ingest,             \* main / export_to_chroma: the run in progress or last ended
    runs,               \* ingest runs started so far
    chroma,             \* the vector store: collection name -> [exists, docs]
    wall_clock,         \* datetime.now() of the ingest host, in seconds
    \* ---- save_search and the query_approvals operations (SpecApprovals) ----
    query_approvals,    \* table query_approvals: query -> row (present: the row exists)
    save_calls,         \* per connection: the save_search call it serves and its progress
    approval_last,      \* the latest completed call on query_approvals or search_history
    utcnow,             \* datetime.utcnow() of the next call, in abstract ticks
    \* ---- the daily usage counters of the tokens (SpecUsage) ----
    usage_calls,        \* per connection: the rate-limit check it serves
    usage_log,          \* the get_token_usage_today calls made: token, date, value returned
    usage_incs,         \* per <<token_id, date>>: increment_token_usage calls completed
    seg,                \* one call of segment_paragraph: its arguments, locals and result
    pp,                 \* one call of prepare_paragraphs: base paragraphs, min_lines, result
    tot,                \* one pass of the export loop over the segments of a dump
    model_rows,         \* table embedding_models with all its columns; the id is the position
    completed_jobs,     \* the completed rows of export_jobs; the id is the position
    sync_last           \* the last call on the embedding_models table and what it returned

authVars == <<enable_api_auth, now, api_users, api_tokens, api_token_usage,
              inflight, last, last_headers, arrivals, admitted, nreq>>

mergeVars == <<mg_in, mg_out>>

searchVars == <<embedding_models, redis_client, redis, search_history, mm, sd, served>>

pageVars == <<pg_in, pg_out>>

webVars == <<authVars, mergeVars, searchVars>>

voteVars == <<search_votes, vote_calls, vote_log, vote_seq>>

ingestVars == <<export_jobs, job_status_log, ingest, runs, chroma, wall_clock>>

approvalVars == <<query_approvals, save_calls, approval_last, utcnow>>

usageVars == <<usage_calls, usage_log, usage_incs>>

chunkVars == <<seg, pp, tot>>

syncVars == <<model_rows, completed_jobs, sync_last>>

dataVars == <<pageVars, db_writer, voteVars, ingestVars, approvalVars, usageVars, chunkVars, syncVars>>

vars == <<webVars, dataVars>>

Max(a, b) == IF a >= b THEN a ELSE b
Min(a, b) == IF a <= b THEN a ELSE b

(***************************************************************************)
(* Strings the code compares character by character are sequences of       *)
(* one-character strings.                                                  *)
(***************************************************************************)
StartsWith(s, prefix) ==
    /\ Len(prefix) <= Len(s)
    /\ SubSeq(s, 1, Len(prefix)) = prefix

P_root     == <<"/">>
P_health   == <<"/","h","e","a","l","t","h">>
P_docs     == <<"/","d","o","c","s">>
P_redoc    == <<"/","r","e","d","o","c">>
P_openapi  == <<"/","o","p","e","n","a","p","i",".","j","s","o","n">>
P_static   == <<"/","s","t","a","t","i","c">>
P_approved == <<"/","a","p","p","r","o","v","e","d","-","q","u","e","r","i","e","s">>
P_admin    == <<"/","a","d","m","i","n">>

P_search       == <<"/","s","e","a","r","c","h">>
P_search_multi == P_search \o <<"/","m","u","l","t","i">>
P_history      == <<"/","h","i","s","t","o","r","y">>
P_admin_jobs   == P_admin \o <<"/","j","o","b","s">>
P_admin_tokens == P_admin \o <<"/","a","u","t","h","/","t","o","k","e","n","s">>
P_static_file  == P_static \o <<"/","a",".","j","s">>

\* app.py:2175
public_paths ==
    <<P_root, P_health, P_docs, P_redoc, P_openapi, P_static, P_approved, P_admin>>

\* app.py:2176  any(request.url.path.startswith(path) for path in public_paths)
IsPublicPath(path) ==
    \E i \in 1..Len(public_paths) : StartsWith(path, public_paths[i])

\* request.url.path of the requests the model sends (an ASGI path starts with "/")
RequestPaths ==
    {P_root, P_admin, P_static_file,
     P_search, P_search_multi, P_history, P_admin_jobs, P_admin_tokens}

(***************************************************************************)
(* Authorization headers: <<>> is a missing header, otherwise              *)
(* <<scheme-with-blank, credential>>.                                      *)
(***************************************************************************)
Tokens == {"tokA", "tokB", "tokX"}

AuthHeaders ==
    {<<>>, <<"Basic ", "tokA">>} \cup {<<"Bearer ", t>> : t \in Tokens}

\* hashlib.sha256(token.encode()).hexdigest(): injective on the tokens used
Sha256(token) == <<"sha256", token>>

TokenIds == {1, 2}
UserIds  == {1, 2}
NoExpiry == -1

DayLen        == 2      \* ticks per UTC day
MaxTime       == 2
ExpiryTime    == 1      \* expires_at of token 2
MaxRateLimit  == 2
MaxRequests   == 3
MaxInFlight   == 2
RetryAfter    == 86400

Date(t) == t \div DayLen

\* database.py:1222-1252 (found = FALSE: the function returns None)
NoTokenInfo == [found |-> FALSE, id |-> 0, rate_limit_per_day |-> 0, expires_at |-> -1]

get_api_token(token_hash) ==
    LET rows == {id \in TokenIds :
                    /\ api_tokens[id].token = token_hash
                    /\ api_tokens[id].is_active
                    /\ api_users[api_tokens[id].user_id].is_active}
    IN  IF rows = {} THEN NoTokenInfo
        ELSE LET id == CHOOSE i \in rows : TRUE
             IN  [found |-> TRUE, id |-> id,
                  rate_limit_per_day |-> api_tokens[id].rate_limit_per_day,
                  expires_at |-> api_tokens[id].expires_at]

\* database.py:1279-1289
get_token_usage_today(token_id) == api_token_usage[<<token_id, Date(now)>>]

\* mutant of increment_token_usage: the INSERT without its ON CONFLICT clause
increment_token_usage_insert_only(usage, token_id) ==
    [usage EXCEPT ![<<token_id, Date(now)>>] = 1]

\* database.py:1255-1276 (the upsert on (token_id, date))
increment_token_usage(usage, token_id) ==
    [usage EXCEPT ![<<token_id, Date(now)>>] = @ + 1]

(***************************************************************************)
(* app.py:2183-2217: the token checks of the middleware.  The result is    *)
(* the token row, or the reason of the 401.                                *)
(***************************************************************************)
Rejected(detail) == [ok |-> FALSE, detail |-> detail, id |-> 0, rate_limit_per_day |-> 0]

VerifyToken(authorization) ==
    IF authorization = <<>> THEN Rejected("Authorization header required")
    ELSE IF authorization[1] # "Bearer " THEN Rejected("Invalid authorization format")
    ELSE LET token_info == get_api_token(Sha256(authorization[2]))
         IN  IF ~token_info.found THEN Rejected("Invalid or expired token")
             ELSE IF token_info.expires_at # NoExpiry /\ now > token_info.expires_at
                  THEN Rejected("Token has expired")
                  ELSE [ok |-> TRUE, detail |-> "ok", id |-> token_info.id,
                        rate_limit_per_day |-> token_info.rate_limit_per_day]

(***************************************************************************)
(* app.py:2169-2266: what the middleware decides for one request, up to    *)
(* the call of call_next (no await before it).                             *)
(*   status 0: the request is handed to call_next (the handler runs)       *)
(***************************************************************************)
Decision(status, via, token_id, rate_limit, usage_today, retry_after) ==
    [status |-> status, handler |-> (status = 0), via |-> via, token_id |-> token_id,
     rate_limit |-> rate_limit, usage_today |-> usage_today,
     increment |-> (status = 0 /\ via = "auth"), retry_after |-> retry_after]

MiddlewareDecision(path, authorization) ==
    IF IsPublicPath(path) THEN Decision(0, "public", 0, 0, 0, 0)
    ELSE IF enable_api_auth THEN
        LET v == VerifyToken(authorization)
        IN  IF ~v.ok THEN Decision(401, "auth", 0, 0, 0, 0)
            ELSE LET usage_today == get_token_usage_today(v.id)
                 IN  IF usage_today >= v.rate_limit_per_day
                     THEN Decision(429, "auth", v.id, v.rate_limit_per_day, usage_today, RetryAfter)
                     ELSE Decision(0, "auth", v.id, v.rate_limit_per_day, usage_today, 0)
    ELSE Decision(0, "noauth", 0, 0, 0, 0)

(***************************************************************************)
(* The paths the specification calls public (spec 4.1): the listed paths   *)
(* exactly, and everything under /static/.                                 *)
(***************************************************************************)
DocumentedPublic(path) ==
    \/ path \in {P_root, P_health, P_docs, P_redoc, P_openapi, P_approved, P_admin}
    \/ StartsWith(path, P_static \o <<"/">>)

NoLast == [status |-> -1, handler |-> FALSE, path |-> <<>>, authorization |-> <<>>,
           retry_after |-> 0, verified |-> FALSE, reason |-> "", token_id |-> 0,
           limit |-> 0, ordinal |-> 0, usage_changed |-> FALSE, sequential |-> TRUE]
NoHeaders == [limit |-> -1, remaining |-> -1, reset |-> -1]

AuthInit ==
    /\ enable_api_auth \in BOOLEAN
    /\ now = 0
    /\ api_users \in {[u \in UserIds |-> [is_active |-> (u = 1 \/ a)]] : a \in BOOLEAN}
    /\ \E L \in 1..MaxRateLimit :
         api_tokens =
            [id \in TokenIds |->
                [user_id |-> id,
                 token |-> Sha256(IF id = 1 THEN "tokA" ELSE "tokB"),
                 rate_limit_per_day |-> L,
                 expires_at |-> IF id = 1 THEN NoExpiry ELSE ExpiryTime,
                 is_active |-> TRUE]]
    /\ api_token_usage = [k \in TokenIds \X (0..Date(MaxTime)) |-> 0]
    /\ inflight = <<>>
    /\ last = NoLast
    /\ last_headers = NoHeaders
    /\ arrivals = [t \in TokenIds |-> 0]
    /\ admitted = [t \in TokenIds |-> 0]
    /\ nreq = 0

IdleAuth ==
    /\ enable_api_auth = FALSE
    /\ now = 0
    /\ api_users = [u \in UserIds |-> [is_active |-> TRUE]]
    /\ api_tokens = [id \in TokenIds |->
                        [user_id |-> id, token |-> Sha256("tokA"), rate_limit_per_day |-> 1,
                         expires_at |-> NoExpiry, is_active |-> FALSE]]
    /\ api_token_usage = [k \in TokenIds \X (0..Date(MaxTime)) |-> 0]
    /\ inflight = <<>>
    /\ last = NoLast
    /\ last_headers = NoHeaders
    /\ arrivals = [t \in TokenIds |-> 0]
    /\ admitted = [t \in TokenIds |-> 0]
    /\ nreq = 0

(***************************************************************************)
(* A request arrives: the middleware runs up to call_next or to its own    *)
(* 401 / 429 response.                                                     *)
(***************************************************************************)
auth_and_rate_limit_middleware(path, authorization) ==
    /\ nreq < MaxRequests
    /\ Len(inflight) < MaxInFlight
    /\ LET d == MiddlewareDecision(path, authorization)
           v == VerifyToken(authorization)
           \* bookkeeping for the rate-limit properties: a request of a token that
           \* passes every token check, on a path the specification protects
           counted == enable_api_auth /\ ~DocumentedPublic(path) /\ v.ok
           usage2 == IF d.increment THEN increment_token_usage(api_token_usage, d.token_id)
                     ELSE api_token_usage
       IN  /\ api_token_usage' = usage2
           /\ inflight' = IF d.handler
                          THEN Append(inflight, [via |-> d.via, rate_limit |-> d.rate_limit,
                                                 usage_today |-> d.usage_today])
                          ELSE inflight
           /\ arrivals' = IF counted THEN [arrivals EXCEPT ![v.id] = @ + 1] ELSE arrivals
           /\ admitted' = IF counted /\ d.handler THEN [admitted EXCEPT ![v.id] = @ + 1]
                          ELSE admitted
           /\ last' = [status |-> d.status, handler |-> d.handler, path |-> path,
                       authorization |-> authorization, retry_after |-> d.retry_after,
                       verified |-> v.ok, reason |-> v.detail,
                       token_id |-> v.id, limit |-> v.rate_limit_per_day,
                       ordinal |-> IF counted THEN arrivals[v.id] + 1 ELSE 0,
                       usage_changed |-> (usage2 # api_token_usage),
                       \* so far every request arrived after the previous one returned
                       sequential |-> (last.sequential /\ inflight = <<>>)]
    /\ nreq' = nreq + 1
    /\ UNCHANGED <<enable_api_auth, now, api_users, api_tokens, last_headers>>
    /\ UNCHANGED <<mergeVars, searchVars, dataVars>>

(***************************************************************************)
(* app.py:2239-2253 / 2177-2178 / 2265-2266: call_next returns; on the     *)
(* authenticated branch the rate-limit headers are attached.               *)
(***************************************************************************)
MiddlewareReturn(i) ==
    /\ i \in 1..Len(inflight)
    /\ LET r == inflight[i]
       IN  last_headers' =
              IF r.via = "auth"
              THEN [limit |-> r.rate_limit,
                    remaining |-> Max(0, r.rate_limit - r.usage_today - 1),
                    reset |-> (Date(now) + 1) * DayLen]
              ELSE NoHeaders
    /\ inflight' = [j \in 1..(Len(inflight) - 1) |->
                        IF j < i THEN inflight[j] ELSE inflight[j + 1]]
    /\ UNCHANGED <<enable_api_auth, now, api_users, api_tokens, api_token_usage,
                   last, arrivals, admitted, nreq>>
    /\ UNCHANGED <<mergeVars, searchVars, dataVars>>

\* database.py:1335-1342, DELETE /admin/auth/tokens/{token_id}
revoke_token(token_id) ==
    /\ api_tokens[token_id].is_active
    /\ api_tokens' = [api_tokens EXCEPT ![token_id].is_active = FALSE]
    /\ UNCHANGED <<enable_api_auth, now, api_users, api_token_usage, inflight,
                   last, last_headers, arrivals, admitted, nreq>>
    /\ UNCHANGED <<mergeVars, searchVars, dataVars>>

\* time passes; at UTC midnight the per-day bookkeeping starts again
Tick ==
    /\ now < MaxTime
    /\ now' = now + 1
    /\ arrivals' = IF Date(now + 1) # Date(now) THEN [t \in TokenIds |-> 0] ELSE arrivals
    /\ admitted' = IF Date(now + 1) # Date(now) THEN [t \in TokenIds |-> 0] ELSE admitted
    /\ UNCHANGED <<enable_api_auth, api_users, api_tokens, api_token_usage, inflight,
                   last, last_headers, nreq>>
    /\ UNCHANGED <<mergeVars, searchVars, dataVars>>

NextAuth ==
    \/ \E path \in RequestPaths, authorization \in AuthHeaders :
          auth_and_rate_limit_middleware(path, authorization)
    \/ \E i \in 1..MaxInFlight : MiddlewareReturn(i)
    \/ \E t \in TokenIds : revoke_token(t)
    \/ Tick

(***************************************************************************)
(* POST /search/multi: the limits and the merge of multi_model_search.     *)
(* A hit is [id, model_id]; distance, score, document and metadata ride    *)
(* along with the hit and decide nothing.                                  *)
(***************************************************************************)
ModelIds == {1, 2, 3}

MultiResultCap      == 20       \* the 20 of app.py:885 and app.py:890
MaxEstimatedDefault == 1000     \* settings.max_estimated_results

SeqRange(s) == {s[i] : i \in 1..Len(s)}
Take(s, n)  == SubSeq(s, 1, Min(n, Len(s)))

\* math.ceil(a / b)
FloorDiv(a, b) == a \div b
CeilDiv(a, b) == (a + b - 1) \div b

\* app.py:842-846: submission order, first occurrence of every id
RECURSIVE OrderedIds(_)
OrderedIds(model_ids) ==
    IF model_ids = <<>> THEN <<>>
    ELSE LET front == OrderedIds(SubSeq(model_ids, 1, Len(model_ids) - 1))
             model_id == model_ids[Len(model_ids)]
         IN  IF model_id \in SeqRange(front) THEN front ELSE Append(front, model_id)

\* app.py:882-886
PerModelLimitFloor(top_k, model_count) ==
    IF model_count = 1 THEN top_k
    ELSE Min(top_k, FloorDiv(MultiResultCap, model_count))

PerModelLimit(top_k, model_count) ==
    IF model_count = 1 THEN top_k
    ELSE Min(top_k, CeilDiv(MultiResultCap, model_count))

\* app.py:887-891
OverallLimit(per_model_limit, model_count) ==
    IF model_count = 1 THEN per_model_limit
    ELSE Min(per_model_limit * model_count, MultiResultCap)

\* app.py:892
FetchN(per_model_limit, top_k, max_estimated_results) ==
    Min(Max(per_model_limit, top_k), max_estimated_results)

\* collection.query(..., n_results = n): the n nearest documents, nearest first
QueryHits(ranking, n) == Take(ranking, n)

\* app.py:1017-1034
ModelItems(model_id, ids) ==
    [index \in 1..Len(ids) |-> [id |-> ids[index], model_id |-> model_id]]

\* `if doc_id`: an empty id is falsy; the ids of a collection are non-empty
NoDocId == 0

MaxLen(lists) ==
    IF lists = {} THEN 0
    ELSE LET longest == CHOOSE l \in lists : \A o \in lists : Len(o) <= Len(l)
         IN  Len(longest)

\* the merge loops without the seen_doc_ids test
RECURSIVE RoundRobinKeepAll(_, _, _, _, _, _, _, _)
RoundRobinKeepAll(successful_model_ids, per_model_results, overall_limit, max_depth, depth, j, combined_results, seen_doc_ids) ==
    IF depth >= max_depth \/ Len(combined_results) >= overall_limit
    THEN combined_results
    ELSE IF j > Len(successful_model_ids)
    THEN RoundRobinKeepAll(successful_model_ids, per_model_results, overall_limit, max_depth,
                           depth + 1, 1, combined_results, seen_doc_ids)
    ELSE LET model_items == per_model_results[successful_model_ids[j]]
         IN  IF depth < Len(model_items) /\ model_items[depth + 1].id # NoDocId
             THEN RoundRobinKeepAll(successful_model_ids, per_model_results, overall_limit,
                                    max_depth, depth, j + 1,
                                    Append(combined_results, model_items[depth + 1]),
                                    seen_doc_ids)
             ELSE RoundRobinKeepAll(successful_model_ids, per_model_results, overall_limit,
                                    max_depth, depth, j + 1, combined_results, seen_doc_ids)

(***************************************************************************)
(* app.py:1055-1071: the two nested loops, position by position; depth     *)
(* counts from 0 as in the code.                                           *)
(***************************************************************************)
RECURSIVE RoundRobin(_, _, _, _, _, _, _, _)
RoundRobin(successful_model_ids, per_model_results, overall_limit, max_depth, depth, j, combined_results, seen_doc_ids) ==
    IF depth >= max_depth \/ Len(combined_results) >= overall_limit
    THEN combined_results
    ELSE IF j > Len(successful_model_ids)
    THEN RoundRobin(successful_model_ids, per_model_results, overall_limit, max_depth,
                    depth + 1, 1, combined_results, seen_doc_ids)
    ELSE LET model_items == per_model_results[successful_model_ids[j]]
         IN  IF /\ depth < Len(model_items)
                /\ model_items[depth + 1].id # NoDocId
                /\ model_items[depth + 1].id \notin seen_doc_ids
             THEN RoundRobin(successful_model_ids, per_model_results, overall_limit,
                             max_depth, depth, j + 1,
                             Append(combined_results, model_items[depth + 1]),
                             seen_doc_ids \cup {model_items[depth + 1].id})
             ELSE RoundRobin(successful_model_ids, per_model_results, overall_limit,
                             max_depth, depth, j + 1, combined_results, seen_doc_ids)

\* app.py:1047-1071
CombineResults(successful_model_ids, per_model_results, per_model_limit, overall_limit) ==
    IF Len(successful_model_ids) = 0 THEN <<>>
    ELSE IF Len(successful_model_ids) = 1
    THEN Take(per_model_results[successful_model_ids[1]], per_model_limit)
    ELSE RoundRobin(successful_model_ids, per_model_results, overall_limit,
                    MaxLen({per_model_results[m] : m \in SeqRange(successful_model_ids)}),
                    0, 1, <<>>, {})

(***************************************************************************)
(* SpecMerge: the collections hold runs of consecutive documents, rising   *)
(* or falling, so that the lists of two models overlap at different ranks  *)
(* and three lists together exceed the cap.                                *)
(***************************************************************************)
Stride   == 5
LongRun  == 12
MaxTopK  == 11
SmallMaxEstimated == 5

Run(offset, len, falling) ==
    [i \in 1..len |-> IF falling THEN offset + len + 1 - i ELSE offset + i]

Rankings ==
    {Run(o, n, f) : o \in {0, Stride, 3 * Stride}, n \in {0, 1, LongRun},
                    f \in BOOLEAN}

MergeTopKs == {1, 2, 7, MaxTopK}

Failed == [ok |-> FALSE, ranking |-> <<>>]

InjectiveSeqs(S, n) ==
    {s \in UNION {[1..k -> S] : k \in 1..n} : \A i, j \in 1..Len(s) : i # j => s[i] # s[j]}

NoMergeOut ==
    [done |-> FALSE, status |-> 0, per_model_limit |-> 0, overall_limit |-> 0, fetch_n |-> 0,
     successful_model_ids |-> <<>>, per_model_results |-> [m \in ModelIds |-> <<>>],
     results |-> <<>>]

MergeInit ==
    /\ \E ids \in InjectiveSeqs(ModelIds, 3), k \in MergeTopKs,
          e \in {MaxEstimatedDefault, SmallMaxEstimated} :
          \E st \in [ModelIds -> {Failed} \cup {[ok |-> TRUE, ranking |-> r] : r \in Rankings}] :
             /\ \A m \in ModelIds : m \notin SeqRange(ids) => st[m] = Failed
             /\ mg_in = [ordered_ids |-> ids, top_k |-> k, max_estimated_results |-> e,
                         store |-> st]
    /\ mg_out = NoMergeOut

IdleMerge ==
    /\ mg_in = [ordered_ids |-> <<>>, top_k |-> 0, max_estimated_results |-> 0,
                store |-> [m \in ModelIds |-> Failed]]
    /\ mg_out = NoMergeOut

\* app.py:881-1071 on the drawn request and collections
MergeLive ==
    /\ ~mg_out.done
    /\ LET ordered_ids == mg_in.ordered_ids
           model_count == Len(ordered_ids)
           per_model_limit == PerModelLimit(mg_in.top_k, model_count)
           overall_limit == OverallLimit(per_model_limit, model_count)
           fetch_n == FetchN(per_model_limit, mg_in.top_k, mg_in.max_estimated_results)
           successful_model_ids == SelectSeq(ordered_ids, LAMBDA m : mg_in.store[m].ok)
           per_model_results ==
               [m \in ModelIds |->
                   IF mg_in.store[m].ok
                   THEN ModelItems(m, QueryHits(mg_in.store[m].ranking, fetch_n))
                   ELSE <<>>]
       IN  mg_out' =
             [done |-> TRUE,
              status |-> IF successful_model_ids = <<>> THEN 502 ELSE 200,
              per_model_limit |-> per_model_limit,
              overall_limit |-> overall_limit,
              fetch_n |-> fetch_n,
              successful_model_ids |-> successful_model_ids,
              per_model_results |-> per_model_results,
              results |-> IF successful_model_ids = <<>> THEN <<>>
                          ELSE CombineResults(successful_model_ids, per_model_results,
                                              per_model_limit, overall_limit)]
    /\ UNCHANGED mg_in
    /\ UNCHANGED <<authVars, searchVars, dataVars>>

NextMerge == MergeLive


(***************************************************************************)
(* ---- /search/multi and /search: models, store, cache, history ----      *)
(***************************************************************************)
NumModels == 2            \* rows of embedding_models; NumModels + 1 is an id with no row
StoreDepth == 3           \* hits a collection can return for a query
MaxIdsPerRequest == 2     \* length of payload.model_ids (the schema allows up to 3)
MaxSearches == 2          \* requests handled in one behaviour

ExistingModels == 1..NumModels

\* the rows of embedding_models (database.py:138-152), apart from is_active
ModelCatalog ==
    <<[embedding_provider |-> "openai", embedding_model |-> "text-embedding-3-small",
       collection |-> "book_pages"],
      [embedding_provider |-> "huggingface", embedding_model |-> "persian-embeddings",
       collection |-> "book_pages_hf"],
      [embedding_provider |-> "gemini", embedding_model |-> "text-embedding-004",
       collection |-> "book_pages_gemini"],
      [embedding_provider |-> "openai", embedding_model |-> "text-embedding-3-large",
       collection |-> "book_pages_large"]>>

\* database.py:778-827: the rows of the given ids that exist, as id -> row
get_embedding_models_by_ids(model_ids) ==
    [m \in SeqRange(model_ids) \cap DOMAIN embedding_models |->
        [id |-> m,
         embedding_provider |-> ModelCatalog[m].embedding_provider,
         embedding_model |-> ModelCatalog[m].embedding_model,
         collection |-> ModelCatalog[m].collection,
         is_active |-> embedding_models[m].is_active]]

\* what collection.query returns for a model's collection, nearest first:
\* neighbouring collections share documents, at different ranks
StoreRanking(model_id) == [i \in 1..StoreDepth |-> model_id + i - 1]

\* a query is a sequence of tokens, " " standing for any run of whitespace
SP == " "
LowerWord(w) == IF w = "Foo" THEN "foo" ELSE w

RECURSIVE JoinWords(_)
JoinWords(words) ==
    IF Len(words) <= 1 THEN words
    ELSE <<Head(words), SP>> \o JoinWords(Tail(words))

\* app.py:333: " ".join(query.strip().lower().split())
NormalizeQuery(query) ==
    LET split == SelectSeq(query, LAMBDA t : t # SP)
    IN  JoinWords([i \in 1..Len(split) |-> LowerWord(split[i])])

Queries == {<<"foo", SP, "bar">>, <<SP, "Foo", SP, SP, "bar">>}

RECURSIVE SortedSeq(_)
SortedSeq(S) ==
    IF S = {} THEN <<>>
    ELSE LET least == CHOOSE x \in S : \A y \in S : x <= y
         IN  <<least>> \o SortedSeq(S \ {least})

\* app.py:331-336
BuildMultiSearchCacheKey(query, model_ids, top_k) ==
    [ns |-> "multi-search", digest |-> Sha256(NormalizeQuery(query)),
     ids_part |-> SortedSeq(SeqRange(model_ids)), top_k |-> top_k]

\* json.dumps / json.loads of a response payload
JsonDumps(value) == <<"json", value>>
JsonLoads(raw) == raw[2]

\* redis GET / SETEX / key expiry on the cache (a set of [key, value] entries)
RedisHas(key) == \E e \in redis : e.key = key
RedisGet(key) == (CHOOSE e \in redis : e.key = key).value
RedisSetex(cache, key, value) ==
    {e \in cache : e.key # key} \cup {[key |-> key, value |-> value]}

\* Optional[List[...]] of the response's errors field
NoErrors == [null |-> TRUE, list |-> <<>>]
\* an errors field that is null although models failed
SomeErrorsDropped(model_errors) == [null |-> TRUE, list |-> <<>>]
SomeErrors(model_errors) == [null |-> FALSE, list |-> model_errors]

NoError == [kind |-> "none", collection |-> ""]
ErrorEntry(model_info, kind) ==
    [collection |-> model_info.collection, model |-> model_info.embedding_model,
     error |-> [kind |-> kind, collection |-> model_info.collection]]

Detail(code, ids, error) == [code |-> code, ids |-> ids, error |-> error]
NoDetail == Detail("", <<>>, NoError)

NoMultiBody ==
    [query |-> <<>>, model_ids |-> <<>>, returned |-> 0, results |-> <<>>, errors |-> NoErrors]

MultiResponse(status_code, detail, body, cache_source) ==
    [status |-> status_code, detail |-> detail, body |-> body, cache_source |-> cache_source]

\* a row that carries the service's default collection, provider and model
HistoryRowOfDefaults(query, result_count, model_info) ==
    [query |-> query, result_count |-> result_count, collection |-> "book_pages",
     provider |-> "openai", model |-> "text-embedding-3-small"]

\* database.py:247-278: the row save_search inserts
HistoryRow(query, result_count, model_info) ==
    [query |-> query, result_count |-> result_count, collection |-> model_info.collection,
     provider |-> model_info.embedding_provider, model |-> model_info.embedding_model]

MultiTopKs == {1, 2}

MultiQueries == {<<SP, "Foo", SP, SP, "bar">>}

\* payload.model_ids: one model, two models in both orders, a repeated id, a missing id
MultiModelIdLists ==
    {ids \in UNION {[1..n -> 1..(NumModels + 1)] : n \in 1..MaxIdsPerRequest} :
        \/ Len(ids) = 1 /\ ids[1] = 1
        \/ Len(ids) = 2 /\ ids[1] # ids[2] /\ SeqRange(ids) \subseteq ExistingModels
        \/ Len(ids) = 2 /\ ids[1] = NumModels
    }

MultiPayloads ==
    [query : MultiQueries, model_ids : MultiModelIdLists, top_k : MultiTopKs, save : BOOLEAN]

EmptyDict == [m \in {} |-> <<>>]

IdleMulti ==
    [pc |-> "idle", payload |-> [query |-> <<>>, model_ids |-> <<>>, top_k |-> 0, save |-> FALSE],
     ordered_ids |-> <<>>, model_map |-> EmptyDict, cache_key |-> BuildMultiSearchCacheKey(<<>>, <<>>, 0),
     per_model_limit |-> 0, overall_limit |-> 0, fetch_n |-> 0, idx |-> 0,
     per_model_results |-> EmptyDict, model_errors |-> <<>>,
     calls |-> <<>>, history_mark |-> 0, save_failed |-> {},
     response |-> MultiResponse(0, NoDetail, NoMultiBody, "none")]

(***************************************************************************)
(* app.py:831-892: validation, cache lookup and limits of /search/multi.   *)
(* cache_up is whether the redis GET answers (an exception is logged and   *)
(* the request goes on as a miss).                                         *)
(***************************************************************************)
multi_model_search_begin(payload, cache_up) ==
    /\ mm.pc # "fetch"
    /\ served < MaxSearches
    /\ served' = served + 1
    /\ LET ordered_ids == OrderedIds(payload.model_ids)
           model_map == get_embedding_models_by_ids(ordered_ids)
           missing_ids == SelectSeq(ordered_ids, LAMBDA m : m \notin DOMAIN model_map)
           inactive_models == {m \in DOMAIN model_map : ~model_map[m].is_active}
           cache_key == BuildMultiSearchCacheKey(payload.query, ordered_ids, payload.top_k)
           model_count == Len(ordered_ids)
           per_model_limit == PerModelLimit(payload.top_k, model_count)
           overall_limit == OverallLimit(per_model_limit, model_count)
           fetch_n == FetchN(per_model_limit, payload.top_k, MaxEstimatedDefault)
           request == [IdleMulti EXCEPT !.payload = payload, !.ordered_ids = ordered_ids,
                                        !.model_map = model_map, !.cache_key = cache_key,
                                        !.history_mark = Len(search_history)]
           rejected(status_code, detail) ==
               [request EXCEPT !.pc = "done",
                               !.response = MultiResponse(status_code, detail, NoMultiBody, "none")]
       IN  mm' =
             IF payload.model_ids = <<>>
             THEN rejected(400, Detail("no_model_selected", <<>>, NoError))
             ELSE IF missing_ids # <<>>
             THEN rejected(404, Detail("models_not_found", missing_ids, NoError))
             ELSE IF inactive_models # {}
             THEN rejected(400, Detail("inactive_models", <<>>, NoError))
             ELSE IF redis_client /\ cache_up /\ RedisHas(cache_key)
             THEN [request EXCEPT !.pc = "done", !.calls = <<"cache_get">>,
                                  !.response = MultiResponse(200, NoDetail,
                                                   JsonLoads(RedisGet(cache_key)), "cache")]
             ELSE [request EXCEPT !.pc = "fetch",
                                  !.calls = IF redis_client THEN <<"cache_get">> ELSE <<>>,
                                  !.per_model_limit = per_model_limit,
                                  !.overall_limit = overall_limit,
                                  !.fetch_n = fetch_n, !.idx = 1]
    /\ UNCHANGED <<embedding_models, redis_client, redis, search_history>>
    /\ UNCHANGED <<authVars, mergeVars, sd, dataVars>>

FetchOutcomes == {"collection_error", "search_error", "hits", "no_hits"}

(***************************************************************************)
(* app.py:900-1034: one turn of the per-model loop.  collection_error:     *)
(* get_collection raises; search_error: the model's embedder or query and  *)
(* the query_texts fallback raise; hits / no_hits: a query answers with    *)
(* the nearest fetch_n documents of the collection, or with none.          *)
(***************************************************************************)
multi_model_search_fetch(outcome) ==
    /\ mm.pc = "fetch"
    /\ mm.idx <= Len(mm.ordered_ids)
    /\ LET model_id == mm.ordered_ids[mm.idx]
           model_info == mm.model_map[model_id]
           ids == IF outcome = "hits" THEN QueryHits(StoreRanking(model_id), mm.fetch_n)
                  ELSE <<>>
       IN  mm' =
             IF outcome = "collection_error"
             THEN [mm EXCEPT !.idx = @ + 1,
                             !.calls = @ \o <<"get_collection">>,
                             !.model_errors =
                                 Append(@, ErrorEntry(model_info, "collection_unavailable"))]
             ELSE IF outcome = "search_error"
             THEN [mm EXCEPT !.idx = @ + 1,
                             !.calls = @ \o <<"get_collection", "embed", "query">>,
                             !.model_errors =
                                 Append(@, ErrorEntry(model_info, "search_failed"))]
             ELSE [mm EXCEPT !.idx = @ + 1,
                             !.calls = @ \o <<"get_collection", "embed", "query">>,
                             !.per_model_results =
                                 (model_id :> ModelItems(model_id, ids)) @@ @]
    /\ UNCHANGED <<embedding_models, redis_client, redis, search_history, served>>
    /\ UNCHANGED <<authVars, mergeVars, sd, dataVars>>

(***************************************************************************)
(* app.py:1036-1124: the 502 of a request whose models all failed, or the  *)
(* merge, the cache write, the history rows and the response.  cache_up is *)
(* whether SETEX succeeds, save_failed the models whose save_search raises *)
(* (both are logged and ignored).                                          *)
(***************************************************************************)
multi_model_search_end(cache_up, save_failed) ==
    /\ mm.pc = "fetch"
    /\ mm.idx > Len(mm.ordered_ids)
    /\ LET per_model_results == mm.per_model_results
           successful_model_ids ==
               SelectSeq(mm.ordered_ids, LAMBDA m : m \in DOMAIN per_model_results)
           combined_results ==
               CombineResults(successful_model_ids, per_model_results,
                              mm.per_model_limit, mm.overall_limit)
           response_payload ==
               [query |-> mm.payload.query, model_ids |-> mm.ordered_ids,
                returned |-> Len(combined_results), results |-> combined_results,
                errors |-> IF mm.model_errors # <<>> THEN SomeErrors(mm.model_errors)
                           ELSE NoErrors]
           stores == redis_client /\ combined_results # <<>>
           to_save ==
               IF mm.payload.save
               THEN SelectSeq(successful_model_ids,
                              LAMBDA m : Take(per_model_results[m], mm.per_model_limit) # <<>>)
               ELSE <<>>
           saved == SelectSeq(to_save, LAMBDA m : m \notin save_failed)
           rows == [i \in 1..Len(saved) |->
                      HistoryRow(mm.payload.query,
                                 Len(Take(per_model_results[saved[i]], mm.per_model_limit)),
                                 mm.model_map[saved[i]])]
       IN  IF DOMAIN per_model_results = {} /\ mm.model_errors # <<>>
           THEN /\ cache_up /\ save_failed = {}
                /\ mm' = [mm EXCEPT !.pc = "done",
                                    !.response =
                                        MultiResponse(502,
                                            Detail("all_models_failed", <<>>,
                                                   mm.model_errors[1].error),
                                            NoMultiBody, "none")]
                /\ UNCHANGED <<redis, search_history>>
           ELSE /\ stores \/ cache_up
                /\ save_failed \subseteq SeqRange(to_save)
                /\ redis' = IF stores /\ cache_up
                            THEN RedisSetex(redis, mm.cache_key, JsonDumps(response_payload))
                            ELSE redis
                /\ search_history' = search_history \o rows
                /\ mm' = [mm EXCEPT !.pc = "done",
                                    !.calls = @ \o (IF stores THEN <<"cache_setex">> ELSE <<>>)
                                                \o [i \in 1..Len(to_save) |-> "save_search"],
                                    !.save_failed = save_failed,
                                    !.response =
                                        MultiResponse(200, NoDetail, response_payload, "live")]
    /\ UNCHANGED <<embedding_models, redis_client, served>>
    /\ UNCHANGED <<authVars, mergeVars, sd, dataVars>>

\* database.py:835-847, called by the admin's toggle endpoint
set_embedding_model_active(model_id, is_active) ==
    /\ model_id \in DOMAIN embedding_models
    /\ embedding_models' = [embedding_models EXCEPT ![model_id].is_active = is_active]
    /\ UNCHANGED <<redis_client, redis, search_history, mm, served>>
    /\ UNCHANGED <<authVars, mergeVars, sd, dataVars>>

\* the TTL of a cache entry runs out (app.py:1087: 24 hours)
RedisExpire(key) ==
    /\ RedisHas(key)
    /\ redis' = {e \in redis : e.key # key}
    /\ UNCHANGED <<embedding_models, redis_client, search_history, mm, served>>
    /\ UNCHANGED <<authVars, mergeVars, sd, dataVars>>

NextMulti ==
    \/ \E payload \in MultiPayloads, cache_up \in BOOLEAN :
          multi_model_search_begin(payload, cache_up)
    \/ \E outcome \in FetchOutcomes : multi_model_search_fetch(outcome)
    \/ \E cache_up \in BOOLEAN, save_failed \in SUBSET ExistingModels :
          multi_model_search_end(cache_up, save_failed)
    \/ \E model_id \in ExistingModels, is_active \in BOOLEAN :
          set_embedding_model_active(model_id, is_active)
    \/ \E key \in {e.key : e \in redis} : RedisExpire(key)

(***************************************************************************)
(* ---- /search: search_documents ----                                     *)
(***************************************************************************)
RequestPageSize == 2      \* page_size of the requests drawn (the schema's default is 20)
MaxPage == 1               \* pages requested

\* config.py:34-41: the default collection and embedder of the service
DefaultSettings ==
    [embedding_provider |-> "openai", embedding_model |-> "text-embedding-3-small",
     chroma_collection |-> "book_pages"]

\* the model whose export filled a collection
CollectionOwner(collection) ==
    CHOOSE m \in DOMAIN ModelCatalog : ModelCatalog[m].collection = collection

\* database.py:731-775: the row of a model, found = FALSE for None
get_embedding_model(model_id) ==
    IF model_id \in DOMAIN embedding_models
    THEN [found |-> TRUE, id |-> model_id,
          embedding_provider |-> ModelCatalog[model_id].embedding_provider,
          embedding_model |-> ModelCatalog[model_id].embedding_model,
          collection |-> ModelCatalog[model_id].collection,
          is_active |-> embedding_models[model_id].is_active]
    ELSE [found |-> FALSE, id |-> model_id, embedding_provider |-> "", embedding_model |-> "",
          collection |-> "", is_active |-> FALSE]

\* a key built from the query as typed
BuildSingleSearchCacheKeyRaw(query, provider, model, collection, top_k, page, page_size, include_full_context) ==
    [ns |-> "search", digest |-> Sha256(query),
     model_part |-> <<provider, model, collection>>, top_k |-> top_k, page |-> page,
     page_size |-> page_size,
     context_flag |-> IF include_full_context THEN "ctx" ELSE "seg"]

\* app.py:339-355
BuildSingleSearchCacheKey(query, provider, model, collection, top_k, page, page_size, include_full_context) ==
    [ns |-> "search", digest |-> Sha256(NormalizeQuery(query)),
     model_part |-> <<provider, model, collection>>, top_k |-> top_k, page |-> page,
     page_size |-> page_size,
     context_flag |-> IF include_full_context THEN "ctx" ELSE "seg"]

\* app.py:507-513, with settings.enable_pagination at its default (true)
NResults(page, page_size, max_estimated_results) ==
    Max(Min(page * page_size, max_estimated_results), page_size)

\* list[start:end] of Python, 0-based, end exclusive
Slice(s, start, end) == SubSeq(s, Min(start, Len(s)) + 1, Min(end, Len(s)))

\* app.py:591-597
PageOf(ids, page, page_size) == Slice(ids, (page - 1) * page_size, (page - 1) * page_size + page_size)

\* Optional[int] of SearchRequest.model_id (schemas.py:52): has_model_id = FALSE for None
NoModelId == [has_model_id |-> FALSE, model_id |-> 0]
SomeModelId(model_id) == [has_model_id |-> TRUE, model_id |-> model_id]

\* `if payload.model_id:` (app.py:392, app.py:517)
Truthy(optional_id) == optional_id.has_model_id /\ optional_id.model_id # 0

SingleModelIds == {NoModelId} \cup {SomeModelId(m) : m \in 0..(NumModels + 1)}

SinglePayloads ==
    [query : Queries, top_k : {RequestPageSize}, page : 1..MaxPage, page_size : {RequestPageSize},
     use_cache : BOOLEAN, save : BOOLEAN, include_full_context : {FALSE},
     model_id : SingleModelIds]

NoSingleBody ==
    [query |-> <<>>, top_k |-> 0, returned |-> 0, provider |-> "", model |-> "",
     collection |-> "", results |-> <<>>]

IdleSingle ==
    [pc |-> "idle",
     payload |-> [query |-> <<>>, top_k |-> 0, page |-> 0, page_size |-> 0, use_cache |-> FALSE,
                  save |-> FALSE, include_full_context |-> FALSE, model_id |-> NoModelId],
     actual_provider |-> "", actual_model |-> "", actual_collection |-> "",
     calls |-> <<>>, history_mark |-> 0, fetched |-> <<>>,
     read_failed |-> FALSE, query_failed |-> FALSE, write_failed |-> FALSE,
     save_failed |-> FALSE,
     response |-> MultiResponse(0, NoDetail, NoSingleBody, "none")]

\* json.loads succeeds on what json.dumps wrote and raises on any other stored text
JsonValid(raw) == raw[1] = "json"
NotJson == <<"text", NoSingleBody>>

\* a lookup that takes whatever is stored under the key for a decoded response
CacheLookupTrusting(key, cache_up) ==
    [hit |-> cache_up /\ RedisHas(key), failed |-> ~cache_up]

(***************************************************************************)
(* app.py:465-475: redis GET and json.loads inside one try; an exception   *)
(* of either is logged and the request goes on as after a miss.            *)
(***************************************************************************)
CacheLookup(key, cache_up) ==
    IF ~cache_up THEN [hit |-> FALSE, failed |-> TRUE]
    ELSE IF ~RedisHas(key) THEN [hit |-> FALSE, failed |-> FALSE]
    ELSE IF ~JsonValid(RedisGet(key)) THEN [hit |-> FALSE, failed |-> TRUE]
    ELSE [hit |-> TRUE, failed |-> FALSE]

(***************************************************************************)
(* app.py:371-475: model resolution, collection, cache lookup of /search.  *)
(* collection_up: chroma_client.get_collection answers; cache_up: the      *)
(* redis GET answers.                                                      *)
(***************************************************************************)
search_documents_begin(payload, collection_up, cache_up) ==
    /\ sd.pc # "query"
    /\ served < MaxSearches
    /\ served' = served + 1
    /\ LET by_model == Truthy(payload.model_id)
           model_info == get_embedding_model(payload.model_id.model_id)
           actual_provider == IF by_model THEN model_info.embedding_provider
                              ELSE DefaultSettings.embedding_provider
           actual_model == IF by_model THEN model_info.embedding_model
                           ELSE DefaultSettings.embedding_model
           actual_collection == IF by_model THEN model_info.collection
                                ELSE DefaultSettings.chroma_collection
           cache_key == BuildSingleSearchCacheKey(payload.query, actual_provider, actual_model,
                                                  actual_collection, payload.top_k, payload.page,
                                                  payload.page_size, payload.include_full_context)
           reads_cache == payload.use_cache /\ redis_client
           cached == CacheLookup(cache_key, cache_up)
           request == [IdleSingle EXCEPT !.payload = payload,
                                         !.history_mark = Len(search_history)]
           resolved == [request EXCEPT !.actual_provider = actual_provider,
                                       !.actual_model = actual_model,
                                       !.actual_collection = actual_collection,
                                       !.calls = (IF by_model THEN <<"get_collection">> ELSE <<>>)
                                                 \o (IF reads_cache THEN <<"cache_get">> ELSE <<>>)]
           rejected(status_code, detail, calls) ==
               [request EXCEPT !.pc = "done", !.calls = calls,
                               !.response = MultiResponse(status_code, detail, NoSingleBody, "none")]
       IN  /\ by_model \/ collection_up
           /\ reads_cache \/ cache_up
           /\ sd' =
             IF by_model /\ ~model_info.found
             THEN rejected(404, Detail("model_not_found", <<payload.model_id.model_id>>, NoError),
                           <<>>)
             ELSE IF by_model /\ ~model_info.is_active
             THEN rejected(400, Detail("model_inactive", <<payload.model_id.model_id>>, NoError),
                           <<>>)
             ELSE IF by_model /\ ~collection_up
             THEN rejected(500, Detail("collection_unavailable", <<>>, NoError),
                           <<"get_collection">>)
             ELSE IF reads_cache /\ cached.hit
             THEN [resolved EXCEPT !.pc = "done",
                                   !.response = MultiResponse(200, NoDetail,
                                                    JsonLoads(RedisGet(cache_key)), "cache")]
             ELSE [resolved EXCEPT !.pc = "query",
                                   !.read_failed = reads_cache /\ cached.failed]
    /\ UNCHANGED <<embedding_models, redis_client, redis, search_history, mm>>
    /\ UNCHANGED <<authVars, mergeVars, dataVars>>

QueryOutcomes == {"error", "hits", "no_hits"}

(***************************************************************************)
(* app.py:477-822: the query, the page, the response, the cache write and  *)
(* the history row.  error: the embedder or the store fails (502);         *)
(* cache_up: SETEX succeeds; save_up: save_search succeeds.                *)
(***************************************************************************)
search_documents_end(outcome, cache_up, save_up) ==
    /\ sd.pc = "query"
    /\ LET payload == sd.payload
           n_results == NResults(payload.page, payload.page_size, MaxEstimatedDefault)
           ids == IF outcome = "hits"
                  THEN QueryHits(StoreRanking(CollectionOwner(sd.actual_collection)), n_results)
                  ELSE <<>>
           response_items == PageOf(ids, payload.page, payload.page_size)
           body == [query |-> payload.query, top_k |-> payload.top_k,
                    returned |-> Len(response_items), provider |-> sd.actual_provider,
                    model |-> sd.actual_model, collection |-> sd.actual_collection,
                    results |-> response_items]
           cache_key == BuildSingleSearchCacheKey(payload.query, sd.actual_provider,
                                                  sd.actual_model, sd.actual_collection,
                                                  payload.top_k, payload.page, payload.page_size,
                                                  payload.include_full_context)
           stores == payload.use_cache /\ redis_client /\ response_items # <<>>
           row == [query |-> payload.query, result_count |-> Len(response_items),
                   collection |-> sd.actual_collection, provider |-> sd.actual_provider,
                   model |-> sd.actual_model]
       IN  IF outcome = "error"
           THEN /\ cache_up /\ save_up
                /\ sd' = [sd EXCEPT !.pc = "done",
                                    !.query_failed = TRUE,
                                    !.calls = @ \o <<"query">>,
                                    !.response = MultiResponse(502,
                                                     Detail("query_failed", <<>>, NoError),
                                                     NoSingleBody, "none")]
                /\ UNCHANGED <<redis, search_history>>
           ELSE /\ stores \/ cache_up
                /\ payload.save \/ save_up
                /\ redis' = IF stores /\ cache_up
                            THEN RedisSetex(redis, cache_key, JsonDumps(body))
                            ELSE redis
                /\ search_history' = IF payload.save /\ save_up
                                     THEN Append(search_history, row)
                                     ELSE search_history
                /\ sd' = [sd EXCEPT !.pc = "done",
                                    !.fetched = ids,
                                    !.write_failed = stores /\ ~cache_up,
                                    !.save_failed = payload.save /\ ~save_up,
                                    !.calls = @ \o <<"query">>
                                                \o (IF stores THEN <<"cache_setex">> ELSE <<>>)
                                                \o (IF payload.save THEN <<"save_search">>
                                                    ELSE <<>>),
                                    !.response = MultiResponse(200, NoDetail, body, "realtime")]
    /\ UNCHANGED <<embedding_models, redis_client, served, mm>>
    /\ UNCHANGED <<authVars, mergeVars, dataVars>>

\* another writer leaves text that is not JSON under a key of the cache
RedisCorrupt(key) ==
    /\ RedisHas(key)
    /\ JsonValid(RedisGet(key))
    /\ redis' = RedisSetex(redis, key, NotJson)
    /\ UNCHANGED <<embedding_models, redis_client, search_history, mm, sd, served>>
    /\ UNCHANGED <<authVars, mergeVars, dataVars>>

NextSingle ==
    \/ \E payload \in SinglePayloads, collection_up \in BOOLEAN, cache_up \in BOOLEAN :
          search_documents_begin(payload, collection_up, cache_up)
    \/ \E outcome \in QueryOutcomes, cache_up \in BOOLEAN, save_up \in BOOLEAN :
          search_documents_end(outcome, cache_up, save_up)
    \/ \E model_id \in ExistingModels, is_active \in BOOLEAN :
          set_embedding_model_active(model_id, is_active)
    \/ \E key \in {e.key : e \in redis} : RedisExpire(key)
    \/ \E key \in {e.key : e \in redis} : RedisCorrupt(key)


SearchInit ==
    /\ embedding_models = [m \in ExistingModels |-> [is_active |-> TRUE]]
    /\ redis_client \in BOOLEAN
    /\ redis = {}
    /\ search_history = <<>>
    /\ mm = IdleMulti
    /\ sd = IdleSingle
    /\ served = 0

IdleSearch ==
    /\ embedding_models = [m \in ExistingModels |-> [is_active |-> TRUE]]
    /\ redis_client = FALSE
    /\ redis = {}
    /\ search_history = <<>>
    /\ mm = IdleMulti
    /\ sd = IdleSingle
    /\ served = 0

(***************************************************************************)
(* ---- /search: n_results, the page and the pagination info ----          *)
(* SpecPage applies app.py:504-513, 590-597 and 697-731 to drawn requests, *)
(* settings and collection sizes.                                          *)
(***************************************************************************)
PgMaxPage == 4            \* payload.page drawn from 1..PgMaxPage
PgMaxPageSize == 3        \* payload.page_size drawn from 1..PgMaxPageSize (the schema allows 100)
PgMaxTopK == 3            \* payload.top_k drawn from 1..PgMaxTopK (the schema allows 50)
PgMaxCollection == 7      \* documents in the collection
PgSmallCap == 4           \* a small MAX_ESTIMATED_RESULTS

\* app.py:507-513
NResultsFor(enable_pagination, page, page_size, top_k, max_estimated_results) ==
    IF enable_pagination THEN NResults(page, page_size, max_estimated_results) ELSE top_k

\* app.py:591-597
PageItems(enable_pagination, ids, page, page_size) ==
    IF enable_pagination THEN PageOf(ids, page, page_size) ELSE ids

NoPagination ==
    [null |-> TRUE, page |-> 0, page_size |-> 0, total_pages |-> -1, has_next_page |-> FALSE,
     has_previous_page |-> FALSE, capped |-> FALSE, estimated_total_results |-> -1]

(***************************************************************************)
(* app.py:697-731.  estimated_total_results is "1000+" (capped) or the     *)
(* count as a string, None (-1) without estimation; total_pages is None    *)
(* (-1) unless the count is exact.                                         *)
(***************************************************************************)
PaginationInfo(enable_pagination, enable_estimated_results, all_results_count, returned, page, page_size, max_estimated_results) ==
    IF ~enable_pagination THEN NoPagination
    ELSE IF ~enable_estimated_results
    THEN [null |-> FALSE, page |-> page, page_size |-> page_size, total_pages |-> -1,
          has_next_page |-> (returned = page_size), has_previous_page |-> (page > 1),
          capped |-> FALSE, estimated_total_results |-> -1]
    ELSE IF all_results_count >= max_estimated_results
    THEN [null |-> FALSE, page |-> page, page_size |-> page_size, total_pages |-> -1,
          has_next_page |-> TRUE, has_previous_page |-> (page > 1),
          capped |-> TRUE, estimated_total_results |-> -1]
    ELSE [null |-> FALSE, page |-> page, page_size |-> page_size,
          total_pages |-> (all_results_count + page_size - 1) \div page_size,
          has_next_page |-> (page * page_size < all_results_count),
          has_previous_page |-> (page > 1),
          capped |-> FALSE, estimated_total_results |-> all_results_count]

NoPageOut ==
    [done |-> FALSE, n_results |-> 0, fetched |-> <<>>, results |-> <<>>, returned |-> 0,
     pagination |-> NoPagination]

PageInit ==
    /\ pg_in \in [page : 1..PgMaxPage, page_size : 1..PgMaxPageSize, top_k : 1..PgMaxTopK,
                  collection_count : 0..PgMaxCollection,
                  enable_pagination : BOOLEAN, enable_estimated_results : BOOLEAN,
                  max_estimated_results : {PgSmallCap, MaxEstimatedDefault}]
    /\ pg_out = NoPageOut

IdlePage ==
    /\ pg_in = [page |-> 0, page_size |-> 0, top_k |-> 0, collection_count |-> 0,
                enable_pagination |-> TRUE, enable_estimated_results |-> TRUE,
                max_estimated_results |-> 0]
    /\ pg_out = NoPageOut

\* app.py:504-513, 585-597, 680-731 on the drawn request
PageLive ==
    /\ ~pg_out.done
    /\ LET n_results == NResultsFor(pg_in.enable_pagination, pg_in.page, pg_in.page_size,
                                    pg_in.top_k, pg_in.max_estimated_results)
           ids == QueryHits([i \in 1..pg_in.collection_count |-> i], n_results)
           response_items == PageItems(pg_in.enable_pagination, ids, pg_in.page, pg_in.page_size)
       IN  pg_out' = [done |-> TRUE, n_results |-> n_results, fetched |-> ids,
                      results |-> response_items, returned |-> Len(response_items),
                      pagination |->
                          PaginationInfo(pg_in.enable_pagination,
                                         pg_in.enable_estimated_results, Len(ids),
                                         Len(response_items), pg_in.page, pg_in.page_size,
                                         pg_in.max_estimated_results)]
    /\ UNCHANGED pg_in
    /\ UNCHANGED <<webVars, db_writer, voteVars, ingestVars, approvalVars, usageVars, chunkVars, syncVars>>

NextPage == PageLive

(***************************************************************************)
(* The sqlite file of database.py.  get_db_connection opens a connection   *)
(* per call with python's default settings: the first INSERT, UPDATE or    *)
(* DELETE of a call begins a transaction and takes the file's write lock,  *)
(* which is held until the call commits or rolls back; a second            *)
(* connection that needs the lock waits for the busy timeout and then      *)
(* raises "database is locked".                                            *)
(***************************************************************************)
NumConns == 2
Conns == 1..NumConns

\* mutant of WriteLockFree: a file without a write lock
WriteLockIgnored(conn) == TRUE

\* database.py:43-57: what a write of connection conn needs of the file
WriteLockFree(conn) == db_writer = 0 \/ db_writer = conn

\* SQL values of a nullable INTEGER and a nullable TEXT column
NullInt == [null |-> TRUE, v |-> 0]
SqlInt(v) == [null |-> FALSE, v |-> v]
NullText == [null |-> TRUE, v |-> ""]
SqlText(v) == [null |-> FALSE, v |-> v]
Coalesce(x, default) == IF x.null THEN default ELSE x.v

(***************************************************************************)
(* save_search_vote (database.py:997-1055) over the table search_votes     *)
(* (database.py:163-185).                                                  *)
(***************************************************************************)
MaxVoteCalls == 3

VoteTypes == {"like", "dislike"}
VoteModelIds == {NullInt, SqlInt(-1), SqlInt(1)}
VoteResultIds == {NullText, SqlText(""), SqlText("r1")}

\* database.py:1008: result_id or None
NormalizeResultId(result_id) ==
    IF result_id.null \/ result_id.v = "" THEN NullText ELSE result_id

\* database.py:183-186: the expressions of idx_search_votes_unique
VoteIndexKey(r) ==
    <<r.guest_user_id, r.query, Coalesce(r.model_id, -1), Coalesce(r.result_id, "")>>

\* database.py:1013-1035: the WHERE clause of the DELETE
VoteMatches(r, call) ==
    /\ r.guest_user_id = call.guest_user_id
    /\ r.query = call.query
    /\ (r.model_id.null /\ call.model_id.null)
           \/ (~r.model_id.null /\ ~call.model_id.null /\ r.model_id.v = call.model_id.v)
    /\ (r.result_id.null /\ call.result_id.null)
           \/ (~r.result_id.null /\ ~call.result_id.null /\ r.result_id.v = call.result_id.v)

NoVoteCall ==
    [pc |-> "idle", guest_user_id |-> "", query |-> "", vote_type |-> "",
     model_id |-> NullInt, result_id |-> NullText, id |-> 0, deleted |-> {}, inserted |-> {}]

\* what the transaction of call sees of the table
VoteView(call) == (search_votes \ call.deleted) \cup call.inserted

IdleVotes ==
    /\ search_votes = {}
    /\ vote_calls = [c \in Conns |-> NoVoteCall]
    /\ vote_log = <<>>
    /\ vote_seq = 0

VotesInit == db_writer = 0 /\ IdleVotes

\* database.py:1005-1012: the vote_type check, the normalisation, the connection
save_search_vote_begin(conn, guest_user_id, query, vote_type, model_id, result_id) ==
    /\ vote_calls[conn].pc \in {"idle", "returned", "raised"}
    /\ vote_seq < MaxVoteCalls
    /\ vote_seq' = vote_seq + 1
    /\ vote_calls' =
           [vote_calls EXCEPT ![conn] =
               [NoVoteCall EXCEPT !.pc = IF vote_type \in VoteTypes THEN "open" ELSE "raised",
                                  !.guest_user_id = guest_user_id, !.query = query,
                                  !.vote_type = vote_type, !.model_id = model_id,
                                  !.result_id = NormalizeResultId(result_id),
                                  !.id = vote_seq + 1]]
    /\ UNCHANGED <<db_writer, search_votes, vote_log>>
    /\ UNCHANGED <<webVars, pageVars, ingestVars, approvalVars, usageVars, chunkVars, syncVars>>

\* database.py:1013-1035: the DELETE, which begins the transaction
save_search_vote_delete(conn) ==
    /\ vote_calls[conn].pc = "open"
    /\ WriteLockFree(conn)
    /\ db_writer' = conn
    /\ vote_calls' =
           [vote_calls EXCEPT ![conn].pc = "deleted",
                              ![conn].deleted =
                                  {r \in search_votes : VoteMatches(r, vote_calls[conn])}]
    /\ UNCHANGED <<search_votes, vote_log, vote_seq>>
    /\ UNCHANGED <<webVars, pageVars, ingestVars, approvalVars, usageVars, chunkVars, syncVars>>

\* database.py:43-57, 1013-1035: the DELETE gives up waiting for the lock; rollback, raise
save_search_vote_locked(conn) ==
    /\ vote_calls[conn].pc = "open"
    /\ ~WriteLockFree(conn)
    /\ vote_calls' = [vote_calls EXCEPT ![conn].pc = "raised"]
    /\ UNCHANGED <<db_writer, search_votes, vote_log, vote_seq>>
    /\ UNCHANGED <<webVars, pageVars, ingestVars, approvalVars, usageVars, chunkVars, syncVars>>

\* database.py:1036-1055: the INSERT; a row with the same index key rolls the call back
save_search_vote_insert(conn) ==
    /\ vote_calls[conn].pc = "deleted"
    /\ LET call == vote_calls[conn]
           row == [id |-> call.id, guest_user_id |-> call.guest_user_id,
                   query |-> call.query, model_id |-> call.model_id,
                   result_id |-> call.result_id, vote_type |-> call.vote_type]
       IN  IF \E r \in VoteView(call) : VoteIndexKey(r) = VoteIndexKey(row)
           THEN /\ vote_calls' = [vote_calls EXCEPT ![conn].pc = "raised",
                                                    ![conn].deleted = {}]
                /\ db_writer' = IF db_writer = conn THEN 0 ELSE db_writer
           ELSE /\ vote_calls' = [vote_calls EXCEPT ![conn].pc = "inserted",
                                                    ![conn].inserted = {row}]
                /\ UNCHANGED db_writer
    /\ UNCHANGED <<search_votes, vote_log, vote_seq>>
    /\ UNCHANGED <<webVars, pageVars, ingestVars, approvalVars, usageVars, chunkVars, syncVars>>

\* database.py:43-57: leaving get_db_connection commits and closes
save_search_vote_commit(conn) ==
    /\ vote_calls[conn].pc = "inserted"
    /\ search_votes' = VoteView(vote_calls[conn])
    /\ vote_log' = Append(vote_log, vote_calls[conn])
    /\ vote_calls' = [vote_calls EXCEPT ![conn].pc = "returned"]
    /\ db_writer' = IF db_writer = conn THEN 0 ELSE db_writer
    /\ UNCHANGED vote_seq
    /\ UNCHANGED <<webVars, pageVars, ingestVars, approvalVars, usageVars, chunkVars, syncVars>>

NextVotes ==
    \/ \E conn \in Conns, vote_type \in VoteTypes \cup {"up"},
          model_id \in VoteModelIds, result_id \in VoteResultIds :
          save_search_vote_begin(conn, "guest-1", "q", vote_type, model_id, result_id)
    \/ \E conn \in Conns : save_search_vote_delete(conn)
    \/ \E conn \in Conns : save_search_vote_locked(conn)
    \/ \E conn \in Conns : save_search_vote_insert(conn)
    \/ \E conn \in Conns : save_search_vote_commit(conn)


(***************************************************************************)
(* The ingest script export-sql-backup-to-chromadb.py: main creates the    *)
(* export_jobs row, export_to_chroma embeds and writes the batches and     *)
(* marks the job completed, and main's handler marks it failed.            *)
(***************************************************************************)
MaxBatches == 3
MaxRuns == 2

NoException == [type |-> "", message |-> ""]

\* the exceptions a run can meet: before the batches, embedding a batch, writing a batch
IngestException(step, batch_number) ==
    [type |-> IF step = "open" THEN "FileNotFoundError" ELSE "RuntimeError",
     message |-> <<step, batch_number>>]

\* mutant of Str: the exception's class name
TypeName(exc) == <<exc.type>>

\* export-sql-backup-to-chromadb.py:1107: str(exc)
Str(exc) == exc.message

MaxClock == 1

\* args.collection
TargetName == <<"book_pages">>

\* export-sql-backup-to-chromadb.py:781-782: f"{name}_{timestamp}" with
\* timestamp = datetime.now().strftime("%Y%m%d_%H%M%S")
SuffixedName(name, t) == name \o <<"_", t>>

CollectionNames == {TargetName} \cup {SuffixedName(TargetName, t) : t \in 0..MaxClock}

NoCollection == [exists |-> FALSE, docs |-> {}]

\* a collection left by an earlier ingest
OldCollection == [exists |-> TRUE, docs |-> {<<0, 1>>}]

\* mutant of get_collection: an existing target is reused instead of a suffixed name
get_collection_reusing(store, name, reset, t) ==
    IF ~reset /\ store[name].exists
    THEN [name |-> name, store |-> store]
    ELSE [name |-> name, store |-> [store EXCEPT ![name] = [exists |-> TRUE, docs |-> {}]]]

\* export-sql-backup-to-chromadb.py:766-791: the name the run writes to and the store
\* after delete_collection / get_collection / create_collection
get_collection(store, name, reset, t) ==
    LET dropped == IF reset THEN [store EXCEPT ![name] = NoCollection] ELSE store
        new_name == SuffixedName(name, t)
    IN  IF dropped[name].exists
        THEN IF dropped[new_name].exists
             THEN [name |-> new_name, store |-> dropped]
             ELSE [name |-> new_name,
                   store |-> [dropped EXCEPT ![new_name] = [exists |-> TRUE, docs |-> {}]]]
        ELSE [name |-> name,
              store |-> [dropped EXCEPT ![name] = [exists |-> TRUE, docs |-> {}]]]

\* database.py:357-407: the row create_export_job inserts
NewExportJob ==
    [status |-> "running", error_message |-> <<>>, total_segments |-> -1,
     collection |-> TargetName]

\* mutant of UpdateExportJob: the other fields are written, the status is not
UpdateExportJobFieldsOnly(job, status, fields) ==
    [f \in DOMAIN job |-> IF f \in DOMAIN fields THEN fields[f] ELSE job[f]]

\* database.py:410-462: the UPDATE of update_export_job on the job's row
UpdateExportJob(job, status, fields) ==
    [f \in DOMAIN job |->
        IF f = "status" THEN status
        ELSE IF f \in DOMAIN fields THEN fields[f] ELSE job[f]]

IdleIngestRun ==
    [pc |-> "idle", job_id |-> 0, num_batches |-> 0, batch_number |-> 0,
     embedded |-> <<>>, written |-> <<>>, exc |-> NoException, update_failed |-> FALSE,
     reset |-> FALSE, collection |-> <<>>, found |-> NoCollection]

IdleIngest ==
    /\ export_jobs = <<>>
    /\ job_status_log = <<>>
    /\ ingest = IdleIngestRun
    /\ runs = 0
    /\ chroma = [n \in CollectionNames |-> NoCollection]
    /\ wall_clock = 0

\* the store before the first run: empty, or holding the target collection of an earlier
\* ingest, or that one and a suffixed one
IngestInit ==
    /\ export_jobs = <<>>
    /\ job_status_log = <<>>
    /\ ingest = IdleIngestRun
    /\ runs = 0
    /\ wall_clock = 0
    /\ \E target, suffixed \in {NoCollection, OldCollection} :
          /\ suffixed.exists => target.exists
          /\ chroma = [n \in CollectionNames |->
                          IF n = TargetName THEN target
                          ELSE IF n = SuffixedName(TargetName, MaxClock) THEN suffixed
                          ELSE NoCollection]

\* export-sql-backup-to-chromadb.py:1086-1099: parse_args, init_database, create_export_job
main_begin(num_batches, tracking_up, reset) ==
    /\ ingest.pc \in {"idle", "exit 0", "exit 1"}
    /\ runs < MaxRuns
    /\ runs' = runs + 1
    /\ IF tracking_up
       THEN /\ export_jobs' = Append(export_jobs, NewExportJob)
            /\ job_status_log' = Append(job_status_log, <<NewExportJob.status>>)
            /\ ingest' = [IdleIngestRun EXCEPT !.pc = "open", !.num_batches = num_batches,
                                               !.reset = reset,
                                               !.job_id = Len(export_jobs) + 1]
       ELSE /\ ingest' = [IdleIngestRun EXCEPT !.pc = "open", !.num_batches = num_batches,
                                               !.reset = reset]
            /\ UNCHANGED <<export_jobs, job_status_log>>
    /\ UNCHANGED <<chroma, wall_clock>>
    /\ UNCHANGED <<webVars, pageVars, db_writer, voteVars, approvalVars, usageVars, chunkVars, syncVars>>

\* export-sql-backup-to-chromadb.py:818-883: the sql file, the client, the collection
export_to_chroma_open(ok) ==
    /\ ingest.pc = "open"
    /\ LET got == get_collection(chroma, TargetName, ingest.reset, wall_clock)
       IN  IF ok
           THEN /\ ingest' = [ingest EXCEPT !.pc = "batch", !.collection = got.name,
                                            !.found = chroma[TargetName]]
                /\ chroma' = got.store
           ELSE /\ ingest' = [ingest EXCEPT !.pc = "except",
                                            !.exc = IngestException("open", 0)]
                /\ UNCHANGED chroma
    /\ UNCHANGED <<export_jobs, job_status_log, runs, wall_clock>>
    /\ UNCHANGED <<webVars, pageVars, db_writer, voteVars, approvalVars, usageVars, chunkVars, syncVars>>

\* export-sql-backup-to-chromadb.py:884-909: the next batch, embedding_provider.embed
export_to_chroma_embed(ok) ==
    /\ ingest.pc = "batch"
    /\ ingest.batch_number < ingest.num_batches
    /\ LET batch_number == ingest.batch_number + 1
       IN  ingest' =
               IF ok
               THEN [ingest EXCEPT !.pc = "add", !.batch_number = batch_number,
                                   !.embedded = Append(@, batch_number)]
               ELSE [ingest EXCEPT !.pc = "except", !.batch_number = batch_number,
                                   !.exc = IngestException("embed", batch_number)]
    /\ UNCHANGED <<export_jobs, job_status_log, runs, chroma, wall_clock>>
    /\ UNCHANGED <<webVars, pageVars, db_writer, voteVars, approvalVars, usageVars, chunkVars, syncVars>>

\* export-sql-backup-to-chromadb.py:911-932: collection.add and the progress counters
export_to_chroma_add(ok) ==
    /\ ingest.pc = "add"
    /\ ingest' =
           IF ok
           THEN [ingest EXCEPT !.pc = "batch", !.written = Append(@, ingest.batch_number)]
           ELSE [ingest EXCEPT !.pc = "except",
                               !.exc = IngestException("add", ingest.batch_number)]
    /\ chroma' = IF ok
                 THEN [chroma EXCEPT ![ingest.collection].docs =
                                         @ \cup {<<runs, ingest.batch_number>>}]
                 ELSE chroma
    /\ UNCHANGED <<export_jobs, job_status_log, runs, wall_clock>>
    /\ UNCHANGED <<webVars, pageVars, db_writer, voteVars, approvalVars, usageVars, chunkVars, syncVars>>

\* export-sql-backup-to-chromadb.py:934-962: after the last batch, the job is marked
\* completed; a failing update_export_job is reported and ignored
export_to_chroma_complete(update_up) ==
    /\ ingest.pc = "batch"
    /\ ingest.batch_number = ingest.num_batches
    /\ IF ingest.job_id # 0 /\ update_up
       THEN /\ export_jobs' =
                   [export_jobs EXCEPT ![ingest.job_id] =
                       UpdateExportJob(@, "completed",
                                       [total_segments |-> Len(ingest.written)])]
            /\ job_status_log' =
                   [job_status_log EXCEPT ![ingest.job_id] =
                       Append(@, export_jobs'[ingest.job_id].status)]
       ELSE UNCHANGED <<export_jobs, job_status_log>>
    /\ ingest' = [ingest EXCEPT !.pc = "exit 0",
                                !.update_failed = (ingest.job_id # 0 /\ ~update_up)]
    /\ UNCHANGED <<runs, chroma, wall_clock>>
    /\ UNCHANGED <<webVars, pageVars, db_writer, voteVars, approvalVars, usageVars, chunkVars, syncVars>>

\* export-sql-backup-to-chromadb.py:1101-1113: main's handler marks the job failed; a
\* failing update_export_job is ignored; sys.exit(1)
main_except(update_up) ==
    /\ ingest.pc = "except"
    /\ IF ingest.job_id # 0 /\ update_up
       THEN /\ export_jobs' =
                   [export_jobs EXCEPT ![ingest.job_id] =
                       UpdateExportJob(@, "failed", [error_message |-> Str(ingest.exc)])]
            /\ job_status_log' =
                   [job_status_log EXCEPT ![ingest.job_id] =
                       Append(@, export_jobs'[ingest.job_id].status)]
       ELSE UNCHANGED <<export_jobs, job_status_log>>
    /\ ingest' = [ingest EXCEPT !.pc = "exit 1",
                                !.update_failed = (ingest.job_id # 0 /\ ~update_up)]
    /\ UNCHANGED <<runs, chroma, wall_clock>>
    /\ UNCHANGED <<webVars, pageVars, db_writer, voteVars, approvalVars, usageVars, chunkVars, syncVars>>

\* the clock of the ingest host advances by a second
IngestTick ==
    /\ wall_clock < MaxClock
    /\ wall_clock' = wall_clock + 1
    /\ UNCHANGED <<export_jobs, job_status_log, ingest, runs, chroma>>
    /\ UNCHANGED <<webVars, pageVars, db_writer, voteVars, approvalVars, usageVars, chunkVars, syncVars>>

NextIngest ==
    \/ \E num_batches \in 0..MaxBatches, tracking_up \in BOOLEAN, reset \in BOOLEAN :
          main_begin(num_batches, tracking_up, reset)
    \/ IngestTick
    \/ \E ok \in BOOLEAN : export_to_chroma_open(ok)
    \/ \E ok \in BOOLEAN : export_to_chroma_embed(ok)
    \/ \E ok \in BOOLEAN : export_to_chroma_add(ok)
    \/ \E update_up \in BOOLEAN : export_to_chroma_complete(update_up)
    \/ \E update_up \in BOOLEAN : main_except(update_up)


(***************************************************************************)
(* save_search (database.py:247-278) with its nested call of               *)
(* update_query_search_count (database.py:980-994), and approve_query /    *)
(* reject_query (database.py:910-944), over the tables search_history and  *)
(* query_approvals (database.py:123-133).                                  *)
(***************************************************************************)
MaxDbCalls == 4

NoTime == 0

NoApproval ==
    [present |-> FALSE, status |-> "", approved_at |-> NoTime, rejected_at |-> NoTime,
     notes |-> NullText, search_count |-> 0, last_searched_at |-> NoTime]

ApprovalNotes == {NullText, SqlText("n1"), SqlText("n2")}

\* mutant of CountedRow: the conflict branch also writes the status of the insert
CountedRowReapproving(row, t) ==
    IF row.present
    THEN [row EXCEPT !.status = "approved", !.search_count = @ + 1, !.last_searched_at = t]
    ELSE [NoApproval EXCEPT !.present = TRUE, !.status = "approved",
                            !.search_count = 1, !.last_searched_at = t]

\* database.py:987-993: INSERT ... ON CONFLICT(query) DO UPDATE of update_query_search_count
CountedRow(row, t) ==
    IF row.present
    THEN [row EXCEPT !.search_count = @ + 1, !.last_searched_at = t]
    ELSE [NoApproval EXCEPT !.present = TRUE, !.status = "approved",
                            !.search_count = 1, !.last_searched_at = t]

\* mutant of ApprovedRow: notes = ? in place of notes = COALESCE(?, notes)
ApprovedRowNotesOverwritten(row, notes, t) ==
    [row EXCEPT !.present = TRUE, !.status = "approved", !.approved_at = t,
                !.rejected_at = NoTime, !.notes = notes]

\* database.py:917-925: INSERT ... ON CONFLICT(query) DO UPDATE of approve_query
ApprovedRow(row, notes, t) ==
    IF row.present
    THEN [row EXCEPT !.status = "approved", !.approved_at = t, !.rejected_at = NoTime,
                     !.notes = IF notes.null THEN @ ELSE notes]
    ELSE [NoApproval EXCEPT !.present = TRUE, !.status = "approved",
                            !.approved_at = t, !.notes = notes]

\* database.py:935-943: INSERT ... ON CONFLICT(query) DO UPDATE of reject_query
RejectedRow(row, notes, t) ==
    IF row.present
    THEN [row EXCEPT !.status = "rejected", !.rejected_at = t, !.approved_at = NoTime,
                     !.notes = IF notes.null THEN @ ELSE notes]
    ELSE [NoApproval EXCEPT !.present = TRUE, !.status = "rejected",
                            !.rejected_at = t, !.notes = notes]

NoSaveCall == [pc |-> "idle", query |-> <<>>, count_before |-> 0, count_failed |-> FALSE]

NoApprovalCall == [op |-> "", query |-> <<>>, notes |-> NullText, at |-> NoTime]

\* database.py:980-982: update_query_search_count opens a connection of its own
NestedConn(conn) == NumConns + conn

\* a connection that serves no save_search call and can take the write lock
ConnFree(conn) == save_calls[conn].pc \in {"idle", "returned", "raised"} /\ WriteLockFree(conn)

notHistory == <<embedding_models, redis_client, redis, mm, sd, served>>

IdleApprovals ==
    /\ query_approvals = [q \in Queries |-> NoApproval]
    /\ save_calls = [c \in Conns |-> NoSaveCall]
    /\ approval_last = NoApprovalCall
    /\ utcnow = 1

\* database.py:262-269: the INSERT into search_history, which begins the transaction
save_search_insert(conn, query) ==
    /\ utcnow <= MaxDbCalls
    /\ ConnFree(conn)
    /\ db_writer' = conn
    /\ save_calls' = [save_calls EXCEPT ![conn] =
                         [NoSaveCall EXCEPT !.pc = "inserted", !.query = query,
                                            !.count_before =
                                                query_approvals[query].search_count]]
    /\ utcnow' = utcnow + 1
    /\ UNCHANGED <<query_approvals, approval_last, search_history>>
    /\ UNCHANGED <<authVars, mergeVars, notHistory, pageVars, voteVars, ingestVars, usageVars, chunkVars, syncVars>>

\* database.py:43-57, 262-269: the INSERT gives up waiting for the lock; rollback, raise
save_search_locked(conn, query) ==
    /\ utcnow <= MaxDbCalls
    /\ save_calls[conn].pc \in {"idle", "returned", "raised"}
    /\ ~WriteLockFree(conn)
    /\ save_calls' = [save_calls EXCEPT ![conn] =
                         [NoSaveCall EXCEPT !.pc = "raised", !.query = query]]
    /\ utcnow' = utcnow + 1
    /\ UNCHANGED <<db_writer, query_approvals, approval_last, search_history>>
    /\ UNCHANGED <<authVars, mergeVars, notHistory, pageVars, voteVars, ingestVars, usageVars, chunkVars, syncVars>>

\* database.py:272-276, 980-994: update_query_search_count on its own connection, inside
\* the open transaction of save_search; its failure is logged and ignored
save_search_count(conn) ==
    /\ save_calls[conn].pc = "inserted"
    /\ LET query == save_calls[conn].query
       IN  IF WriteLockFree(NestedConn(conn))
           THEN /\ query_approvals' =
                       [query_approvals EXCEPT ![query] = CountedRow(@, utcnow)]
                /\ save_calls' = [save_calls EXCEPT ![conn].pc = "counted"]
           ELSE /\ UNCHANGED query_approvals
                /\ save_calls' = [save_calls EXCEPT ![conn].pc = "counted",
                                                    ![conn].count_failed = TRUE]
    /\ UNCHANGED <<db_writer, approval_last, utcnow, search_history>>
    /\ UNCHANGED <<authVars, mergeVars, notHistory, pageVars, voteVars, ingestVars, usageVars, chunkVars, syncVars>>

\* database.py:43-57, 278: return search_id; leaving get_db_connection commits the row
save_search_commit(conn) ==
    /\ save_calls[conn].pc = "counted"
    /\ search_history' =
           Append(search_history, HistoryRow(save_calls[conn].query, 1, ModelCatalog[1]))
    /\ db_writer' = IF db_writer = conn THEN 0 ELSE db_writer
    /\ save_calls' = [save_calls EXCEPT ![conn].pc = "returned"]
    /\ approval_last' = [NoApprovalCall EXCEPT !.op = "save_search", !.at = utcnow,
                                               !.query = save_calls[conn].query]
    /\ UNCHANGED <<query_approvals, utcnow>>
    /\ UNCHANGED <<authVars, mergeVars, notHistory, pageVars, voteVars, ingestVars, usageVars, chunkVars, syncVars>>

\* database.py:980-994: update_query_search_count called by itself
update_query_search_count(conn, query) ==
    /\ utcnow <= MaxDbCalls
    /\ ConnFree(conn)
    /\ query_approvals' = [query_approvals EXCEPT ![query] = CountedRow(@, utcnow)]
    /\ approval_last' = [NoApprovalCall EXCEPT !.op = "update_query_search_count",
                                               !.at = utcnow, !.query = query]
    /\ utcnow' = utcnow + 1
    /\ UNCHANGED <<db_writer, save_calls, search_history>>
    /\ UNCHANGED <<authVars, mergeVars, notHistory, pageVars, voteVars, ingestVars, usageVars, chunkVars, syncVars>>

\* database.py:910-926
approve_query(conn, query, notes) ==
    /\ utcnow <= MaxDbCalls
    /\ ConnFree(conn)
    /\ query_approvals' = [query_approvals EXCEPT ![query] = ApprovedRow(@, notes, utcnow)]
    /\ approval_last' = [op |-> "approve_query", query |-> query, notes |-> notes, at |-> utcnow]
    /\ utcnow' = utcnow + 1
    /\ UNCHANGED <<db_writer, save_calls, search_history>>
    /\ UNCHANGED <<authVars, mergeVars, notHistory, pageVars, voteVars, ingestVars, usageVars, chunkVars, syncVars>>

\* database.py:929-944
reject_query(conn, query, notes) ==
    /\ utcnow <= MaxDbCalls
    /\ ConnFree(conn)
    /\ query_approvals' = [query_approvals EXCEPT ![query] = RejectedRow(@, notes, utcnow)]
    /\ approval_last' = [op |-> "reject_query", query |-> query, notes |-> notes, at |-> utcnow]
    /\ utcnow' = utcnow + 1
    /\ UNCHANGED <<db_writer, save_calls, search_history>>
    /\ UNCHANGED <<authVars, mergeVars, notHistory, pageVars, voteVars, ingestVars, usageVars, chunkVars, syncVars>>

\* database.py:947-952
delete_query(conn, query) ==
    /\ utcnow <= MaxDbCalls
    /\ ConnFree(conn)
    /\ query_approvals' = [query_approvals EXCEPT ![query] = NoApproval]
    /\ approval_last' = [NoApprovalCall EXCEPT !.op = "delete_query", !.at = utcnow,
                                               !.query = query]
    /\ utcnow' = utcnow + 1
    /\ UNCHANGED <<db_writer, save_calls, search_history>>
    /\ UNCHANGED <<authVars, mergeVars, notHistory, pageVars, voteVars, ingestVars, usageVars, chunkVars, syncVars>>

MaxApprovedLimit == 2
MaxMinCount == 1

\* database.py:867-906: the queries get_query_approvals can return; rows that tie in
\* ORDER BY search_count DESC, last_searched_at DESC may come in either order
get_query_approvals(limit, min_count, status) ==
    LET match == {q \in Queries :
                     /\ query_approvals[q].present
                     /\ query_approvals[q].search_count >= min_count
                     /\ status # "" => query_approvals[q].status = status}
        before(q) == {p \in match \ {q} :
                         \/ query_approvals[p].search_count > query_approvals[q].search_count
                         \/ /\ query_approvals[p].search_count = query_approvals[q].search_count
                            /\ query_approvals[p].last_searched_at >
                                   query_approvals[q].last_searched_at}
    IN  {q \in match : Cardinality(before(q)) < limit}

\* app.py:1966-2002: the queries GET /approved-queries can list under the given settings
get_approved_queries(show_approved_queries, limit, min_count) ==
    IF ~show_approved_queries THEN {}
    ELSE get_query_approvals(limit, min_count, "approved")

NextApprovals ==
    \/ \E conn \in Conns, query \in Queries : delete_query(conn, query)
    \/ \E conn \in Conns, query \in Queries : save_search_insert(conn, query)
    \/ \E conn \in Conns, query \in Queries : save_search_locked(conn, query)
    \/ \E conn \in Conns : save_search_count(conn)
    \/ \E conn \in Conns : save_search_commit(conn)
    \/ \E conn \in Conns, query \in Queries : update_query_search_count(conn, query)
    \/ \E conn \in Conns, query \in Queries, notes \in ApprovalNotes :
          approve_query(conn, query, notes)
    \/ \E conn \in Conns, query \in Queries, notes \in ApprovalNotes :
          reject_query(conn, query, notes)


(***************************************************************************)
(* The daily counters of api_token_usage (database.py:228-238) as the      *)
(* rate-limit check (app.py:2138-2162, 2219-2236) and the admin token      *)
(* pages (app.py:1888, 1941) use them.  get_token_usage_today and          *)
(* increment_token_usage each take datetime.utcnow() themselves.           *)
(***************************************************************************)
MaxUsageReads == 3

NoUsageCall == [pc |-> "idle", token_id |-> 0, usage_today |-> 0]

IdleUsage ==
    /\ usage_calls = [c \in Conns |-> NoUsageCall]
    /\ usage_log = <<>>
    /\ usage_incs = [k \in TokenIds \X (0..Date(MaxTime)) |-> 0]

\* the entry a call of get_token_usage_today leaves in usage_log
UsageRead(token_id) ==
    [token_id |-> token_id, date |-> Date(now), value |-> get_token_usage_today(token_id),
     made |-> usage_incs[<<token_id, Date(now)>>]]

\* app.py:2143-2159, 2219-2234: get_token_usage_today and the comparison with the limit
check_rate_limit_read(conn, token_id) ==
    /\ usage_calls[conn].pc = "idle"
    /\ Len(usage_log) < MaxUsageReads
    /\ usage_log' = Append(usage_log, UsageRead(token_id))
    /\ usage_calls' =
           [usage_calls EXCEPT ![conn] =
               IF get_token_usage_today(token_id) >= api_tokens[token_id].rate_limit_per_day
               THEN NoUsageCall
               ELSE [pc |-> "increment", token_id |-> token_id,
                     usage_today |-> get_token_usage_today(token_id)]]
    /\ UNCHANGED <<usage_incs, authVars>>
    /\ UNCHANGED <<mergeVars, searchVars, pageVars, db_writer, voteVars, ingestVars, approvalVars, chunkVars, syncVars>>

\* app.py:2161-2162, 2235-2236: increment_token_usage
check_rate_limit_increment(conn) ==
    /\ usage_calls[conn].pc = "increment"
    /\ api_token_usage' = increment_token_usage(api_token_usage, usage_calls[conn].token_id)
    /\ usage_incs' = [usage_incs EXCEPT ![<<usage_calls[conn].token_id, Date(now)>>] = @ + 1]
    /\ usage_calls' = [usage_calls EXCEPT ![conn] = NoUsageCall]
    /\ UNCHANGED <<enable_api_auth, now, api_users, api_tokens, inflight, last,
                   last_headers, arrivals, admitted, nreq>>
    /\ UNCHANGED usage_log
    /\ UNCHANGED <<mergeVars, searchVars, pageVars, db_writer, voteVars, ingestVars, approvalVars, chunkVars, syncVars>>

\* app.py:1888, 1941: the admin token pages read the counter
admin_token_usage(token_id) ==
    /\ Len(usage_log) < MaxUsageReads
    /\ usage_log' = Append(usage_log, UsageRead(token_id))
    /\ UNCHANGED <<usage_calls, usage_incs, authVars>>
    /\ UNCHANGED <<mergeVars, searchVars, pageVars, db_writer, voteVars, ingestVars, approvalVars, chunkVars, syncVars>>

NextUsage ==
    \/ \E conn \in Conns, token_id \in TokenIds : check_rate_limit_read(conn, token_id)
    \/ \E conn \in Conns : check_rate_limit_increment(conn)
    \/ \E token_id \in TokenIds : admin_token_usage(token_id)
    \/ \E token_id \in TokenIds : revoke_token(token_id)
    \/ Tick


IdleWeb == IdleAuth /\ IdleMerge /\ IdleSearch
\* ---------------------------------------------------------------------------
\* export-sql-backup-to-chromadb.py: paragraph chunking

MaxParagraphLen == 6
MaxMaxLength == 3
MaxContextLength == 4

\* a paragraph of n characters; the character at offset i-1 is i
Paragraph(n) == [i \in 1..n |-> i]

\* mutant of StepSize: windows placed back to back
StepSizeNoOverlap(max_length, context_length) == max_length

\* mutant of StepSize: the step is not kept above zero
StepSizeUnclamped(max_length, context_length) ==
    IF max_length > context_length THEN max_length - context_length ELSE 0

\* export-sql-backup-to-chromadb.py:390
StepSize(max_length, context_length) ==
    IF context_length > 0 THEN Max(1, max_length - context_length) ELSE max_length

IdleSeg ==
    [pc |-> "idle", paragraph |-> <<>>, max_length |-> 1, context_length |-> 0,
     start |-> 0, segments |-> <<>>]

IdlePp ==
    [pc |-> "idle", raw |-> <<>>, min_lines |-> 0, base |-> <<>>, i |-> 0,
     buffer |-> <<>>, buffered_lines |-> 0, merged |-> <<>>]

IdleTot ==
    [pc |-> "idle", records |-> <<>>, batch_size |-> 1, consumed |-> 0,
     processed_records |-> 0, processed_books |-> {}, total_segments |-> 0,
     batch_number |-> 0, added |-> <<>>, job |-> <<>>]

IdleChunk == seg = IdleSeg /\ pp = IdlePp /\ tot = IdleTot

\* a call segment_paragraph(paragraph, max_length=..., context_length=...)
SegInit ==
    \E n \in 0..MaxParagraphLen, max_length \in 1..MaxMaxLength,
       context_length \in 0..MaxContextLength :
        seg = [pc |-> "call", paragraph |-> Paragraph(n), max_length |-> max_length,
               context_length |-> context_length, start |-> 0, segments |-> <<>>]

\* export-sql-backup-to-chromadb.py:384-385
segment_paragraph_whole ==
    /\ seg.pc = "call"
    /\ Len(seg.paragraph) <= seg.max_length
    /\ seg' = [seg EXCEPT !.pc = "returned",
                          !.segments = <<[text |-> seg.paragraph, start |-> 0,
                                          end |-> Len(seg.paragraph)]>>]
    /\ UNCHANGED <<pp, tot>>
    /\ UNCHANGED <<webVars, pageVars, db_writer, voteVars, ingestVars, approvalVars, usageVars, syncVars>>

\* export-sql-backup-to-chromadb.py:387-392
segment_paragraph_enter ==
    /\ seg.pc = "call"
    /\ Len(seg.paragraph) > seg.max_length
    /\ seg' = [seg EXCEPT !.pc = "while", !.segments = <<>>, !.start = 0]
    /\ UNCHANGED <<pp, tot>>
    /\ UNCHANGED <<webVars, pageVars, db_writer, voteVars, ingestVars, approvalVars, usageVars, syncVars>>

\* export-sql-backup-to-chromadb.py:393-405: one pass of the while loop
segment_paragraph_while ==
    /\ seg.pc = "while"
    /\ LET n == Len(seg.paragraph)
           end == Min(seg.start + seg.max_length, n)
           segments == Append(seg.segments,
                              [text |-> Slice(seg.paragraph, seg.start, end),
                               start |-> seg.start, end |-> end])
       IN  IF seg.start < n
           THEN IF end >= n
                THEN seg' = [seg EXCEPT !.pc = "returned", !.segments = segments]
                ELSE seg' = [seg EXCEPT !.segments = segments,
                                        !.start = seg.start +
                                            StepSize(seg.max_length, seg.context_length)]
           ELSE seg' = [seg EXCEPT !.pc = "returned"]
    /\ UNCHANGED <<pp, tot>>
    /\ UNCHANGED <<webVars, pageVars, db_writer, voteVars, ingestVars, approvalVars, usageVars, syncVars>>

NextSegment ==
    \/ segment_paragraph_whole
    \/ segment_paragraph_enter
    \/ segment_paragraph_while

\* ---------------------------------------------------------------------------
\* export-sql-backup-to-chromadb.py: paragraph extraction and merging

MaxRawParagraphs == 4
MaxLineCount == 2
MaxMinLines == 3

\* the pieces re.split leaves of a page: blank ones, and paragraphs with their number of
\* non-empty lines and whether looks_like_title holds
BlankParagraph == [blank |-> TRUE, lines |-> 1, title |-> FALSE]

RawParagraphs ==
    {BlankParagraph} \cup
    [blank : {FALSE}, lines : 1..MaxLineCount, title : BOOLEAN]

RawPages == UNION {[1..n -> RawParagraphs] : n \in 0..MaxRawParagraphs}

\* export-sql-backup-to-chromadb.py:300-319, over the first k pieces; the text of piece
\* idx is the one-word sequence <<idx>>
RECURSIVE extract_paragraph_payloads(_, _)
extract_paragraph_payloads(raw, k) ==
    IF k = 0 THEN <<>>
    ELSE LET before == extract_paragraph_payloads(raw, k - 1)
         IN  IF raw[k].blank THEN before
             ELSE Append(before, [text |-> <<k - 1>>, line_count |-> raw[k].lines,
                                  source_indices |-> <<k - 1>>, is_title |-> raw[k].title])

RECURSIVE SumLineCount(_)
SumLineCount(payloads) ==
    IF payloads = <<>> THEN 0
    ELSE payloads[1].line_count + SumLineCount(Tail(payloads))

RECURSIVE JoinField(_, _)
JoinField(payloads, field) ==
    IF payloads = <<>> THEN <<>>
    ELSE payloads[1][field] \o JoinField(Tail(payloads), field)

\* mutant of _merge_payloads: line_count counts the merged paragraphs
merge_payloads_counting_paragraphs(payloads) ==
    [text |-> JoinField(payloads, "text"),
     line_count |-> Len(payloads),
     source_indices |-> JoinField(payloads, "source_indices"),
     is_title |-> \E k \in 1..Len(payloads) : payloads[k].is_title]

\* export-sql-backup-to-chromadb.py:322-335
merge_payloads(payloads) ==
    LET line_count == SumLineCount(payloads)
        indices == JoinField(payloads, "source_indices")
    IN  [text |-> JoinField(payloads, "text"),
         line_count |-> IF line_count > 0 THEN line_count ELSE Len(payloads),
         source_indices |-> IF indices # <<>> THEN indices ELSE <<0>>,
         is_title |-> \E k \in 1..Len(payloads) : payloads[k].is_title]

\* mutant of flush_buffer: the buffer is dropped
flush_buffer_dropping(merged, buffer) == merged

\* export-sql-backup-to-chromadb.py:347-352: merged after flush_buffer()
flush_buffer(merged, buffer) ==
    IF buffer # <<>> THEN Append(merged, merge_payloads(buffer)) ELSE merged

\* a call prepare_paragraphs(text, min_lines)
PpInit ==
    \E raw \in RawPages, min_lines \in 0..MaxMinLines :
        pp = [IdlePp EXCEPT !.pc = "call", !.raw = raw, !.min_lines = min_lines]

\* export-sql-backup-to-chromadb.py:339-345
prepare_paragraphs_begin ==
    /\ pp.pc = "call"
    /\ LET base_payloads == extract_paragraph_payloads(pp.raw, Len(pp.raw))
       IN  pp' = IF pp.min_lines <= 1
                 THEN [pp EXCEPT !.pc = "returned", !.base = base_payloads,
                                 !.merged = base_payloads]
                 ELSE [pp EXCEPT !.pc = "for", !.base = base_payloads, !.i = 0]
    /\ UNCHANGED <<seg, tot>>
    /\ UNCHANGED <<webVars, pageVars, db_writer, voteVars, ingestVars, approvalVars, usageVars, syncVars>>

\* export-sql-backup-to-chromadb.py:354-362: one pass of the for loop
prepare_paragraphs_for ==
    /\ pp.pc = "for"
    /\ pp.i < Len(pp.base)
    /\ LET payload == pp.base[pp.i + 1]
           buffer == Append(pp.buffer, payload)
           buffered_lines == pp.buffered_lines + payload.line_count
       IN  pp' = IF payload.is_title
                 THEN [pp EXCEPT !.i = @ + 1,
                                 !.merged = Append(flush_buffer(pp.merged, pp.buffer), payload),
                                 !.buffer = <<>>, !.buffered_lines = 0]
                 ELSE IF buffered_lines >= pp.min_lines
                 THEN [pp EXCEPT !.i = @ + 1, !.merged = flush_buffer(pp.merged, buffer),
                                 !.buffer = <<>>, !.buffered_lines = 0]
                 ELSE [pp EXCEPT !.i = @ + 1, !.buffer = buffer,
                                 !.buffered_lines = buffered_lines]
    /\ UNCHANGED <<seg, tot>>
    /\ UNCHANGED <<webVars, pageVars, db_writer, voteVars, ingestVars, approvalVars, usageVars, syncVars>>

\* export-sql-backup-to-chromadb.py:364-365
prepare_paragraphs_return ==
    /\ pp.pc = "for"
    /\ pp.i = Len(pp.base)
    /\ pp' = [pp EXCEPT !.pc = "returned", !.merged = flush_buffer(pp.merged, pp.buffer),
                        !.buffer = <<>>, !.buffered_lines = 0]
    /\ UNCHANGED <<seg, tot>>
    /\ UNCHANGED <<webVars, pageVars, db_writer, voteVars, ingestVars, approvalVars, usageVars, syncVars>>

NextPrepare ==
    \/ prepare_paragraphs_begin
    \/ prepare_paragraphs_for
    \/ prepare_paragraphs_return

\* ---------------------------------------------------------------------------
\* export-sql-backup-to-chromadb.py: the counters of the export loop

MaxRecordId == 3
MaxBookId == 2
MaxSegmentsPerRecord == 2
MaxBatchSize == 2

\* the book_pages rows of a dump in file order: primary keys ascending, possibly with
\* gaps; each row with its book and the number of segments build_segments makes of it
DumpRows == [id : 1..MaxRecordId, book_id : 1..MaxBookId, nseg : 0..MaxSegmentsPerRecord]

Dumps ==
    {d \in UNION {[1..n -> DumpRows] : n \in 0..MaxRecordId} :
        \A k \in 1..(Len(d) - 1) : d[k].id < d[k + 1].id}

\* export-sql-backup-to-chromadb.py:871-882: segments_iter, as the list it yields
RECURSIVE segments_iter(_)
segments_iter(records) ==
    IF records = <<>> THEN <<>>
    ELSE [k \in 1..records[1].nseg |->
             [record_id |-> records[1].id, book_id |-> records[1].book_id,
              segment_index |-> k - 1]]
         \o segments_iter(Tail(records))

\* export-sql-backup-to-chromadb.py:794-802: the next batch batched() yields after
\* `consumed` items
batched(items, batch_size, consumed) ==
    SubSeq(items, consumed + 1, Min(consumed + batch_size, Len(items)))

\* export-sql-backup-to-chromadb.py:892-895 over one batch
RECURSIVE TrackRecords(_, _)
TrackRecords(processed_records, batch) ==
    IF batch = <<>> THEN processed_records
    ELSE TrackRecords(IF batch[1].record_id # 0
                      THEN Max(processed_records, batch[1].record_id)
                      ELSE processed_records,
                      Tail(batch))

\* export-sql-backup-to-chromadb.py:896-898 over one batch
TrackBooks(processed_books, batch) ==
    processed_books \cup {batch[k].book_id : k \in {j \in 1..Len(batch) : batch[j].book_id # 0}}

\* a run of export_to_chroma over a dump, tracked by a job
TotInit ==
    \E records \in Dumps, batch_size \in 1..MaxBatchSize :
        tot = [IdleTot EXCEPT !.pc = "for", !.records = records,
                              !.batch_size = batch_size]

\* export-sql-backup-to-chromadb.py:884-920: one pass of the batch loop
export_to_chroma_batch ==
    /\ tot.pc = "for"
    /\ tot.consumed < Len(segments_iter(tot.records))
    /\ LET batch == batched(segments_iter(tot.records), tot.batch_size, tot.consumed)
       IN  tot' = [tot EXCEPT !.batch_number = @ + 1,
                              !.consumed = @ + Len(batch),
                              !.processed_records = TrackRecords(@, batch),
                              !.processed_books = TrackBooks(@, batch),
                              !.added = Append(@, batch),
                              !.total_segments = @ + Len(batch)]
    /\ UNCHANGED <<seg, pp>>
    /\ UNCHANGED <<webVars, pageVars, db_writer, voteVars, ingestVars, approvalVars, usageVars, syncVars>>

\* export-sql-backup-to-chromadb.py:934-960: the loop is exhausted and the job updated
export_to_chroma_totals ==
    /\ tot.pc = "for"
    /\ tot.consumed = Len(segments_iter(tot.records))
    /\ tot' = [tot EXCEPT !.pc = "completed",
                          !.job = [status |-> "completed",
                                   total_records |-> tot.processed_records,
                                   total_books |-> Cardinality(tot.processed_books),
                                   total_segments |-> tot.total_segments]]
    /\ UNCHANGED <<seg, pp>>
    /\ UNCHANGED <<webVars, pageVars, db_writer, voteVars, ingestVars, approvalVars, usageVars, syncVars>>

NextTotals ==
    \/ export_to_chroma_batch
    \/ export_to_chroma_totals

\* ---------------------------------------------------------------------------
\* database.py: table embedding_models kept in step with the completed export jobs

MaxCompletedJobs == 3
MaxSyncLimit == 2

\* len(DEFAULT_MODEL_COLORS)
NumDefaultColors == 10

\* (embedding_provider, embedding_model, collection)
Triples == {<<"openai", "small", "book_pages">>, <<"openai", "small", "book_pages_v2">>}

\* database.py:28-32
pick_default_model_color(index) == [kind |-> "default", n |-> index % NumDefaultColors]

EmptyColor == [kind |-> "empty", n |-> 0]

AdminColors == {[kind |-> "admin", n |-> 1], EmptyColor}

\* datetime.utcnow() at the grain of job completions
SyncNow == Len(completed_jobs)

NoSyncCall == [op |-> "", model_id |-> 0, limit |-> 0, listing |-> <<>>]

IdleSync ==
    /\ model_rows = <<>>
    /\ completed_jobs = <<>>
    /\ sync_last = NoSyncCall

JobsOf(triple) == {j \in 1..Len(completed_jobs) : completed_jobs[j].triple = triple}

\* database.py:576-589: per triple the completed job with MAX(completed_at)
LatestJobs ==
    {j \in 1..Len(completed_jobs) :
        \A k \in JobsOf(completed_jobs[j].triple) :
            completed_jobs[k].completed_at <= completed_jobs[j].completed_at}

\* ids of a set of jobs, ORDER BY completed_at DESC
RECURSIVE JobsDesc(_)
JobsDesc(jobs) ==
    IF jobs = {} THEN <<>>
    ELSE LET first == CHOOSE j \in jobs :
                 \A k \in jobs : completed_jobs[k].completed_at <= completed_jobs[j].completed_at
         IN  <<first>> \o JobsDesc(jobs \ {first})

\* database.py:553-616
get_latest_completed_model_jobs(limit) ==
    LET ordered == JobsDesc(LatestJobs)
    IN  SubSeq(ordered, 1, Min(limit, Len(ordered)))

RowOf(rows, triple) == {id \in 1..Len(rows) : rows[id].triple = triple}

\* mutant of UpsertModel: the conflicting row is replaced by the inserted one
UpsertModelReplacing(rows, job_id, default_color, t) ==
    LET job == completed_jobs[job_id]
        inserted == [triple |-> job.triple, job_id |-> job_id, is_active |-> TRUE,
                     color |-> default_color, created_at |-> t, updated_at |-> t,
                     last_completed_job_at |-> job.completed_at]
    IN  IF RowOf(rows, job.triple) = {} THEN Append(rows, inserted)
        ELSE [id \in 1..Len(rows) |-> IF rows[id].triple = job.triple THEN inserted ELSE rows[id]]

\* database.py:636-665: INSERT ... ON CONFLICT(embedding_provider, embedding_model,
\* collection) DO UPDATE SET job_id, last_completed_job_at, updated_at
UpsertModel(rows, job_id, default_color, t) ==
    LET job == completed_jobs[job_id]
    IN  IF RowOf(rows, job.triple) = {}
        THEN Append(rows, [triple |-> job.triple, job_id |-> job_id, is_active |-> TRUE,
                           color |-> default_color, created_at |-> t, updated_at |-> t,
                           last_completed_job_at |-> job.completed_at])
        ELSE [id \in 1..Len(rows) |->
                 IF rows[id].triple = job.triple
                 THEN [rows[id] EXCEPT !.job_id = job_id,
                                       !.last_completed_job_at = job.completed_at,
                                       !.updated_at = t]
                 ELSE rows[id]]

\* database.py:634-665: the loop over latest_jobs from position idx on
RECURSIVE SyncFrom(_, _, _, _)
SyncFrom(rows, latest_jobs, idx, existing_count) ==
    IF idx >= Len(latest_jobs) THEN rows
    ELSE SyncFrom(UpsertModel(rows, latest_jobs[idx + 1],
                              pick_default_model_color(existing_count + idx), SyncNow),
                  latest_jobs, idx + 1, existing_count)

\* database.py:619-666: the table after sync_embedding_models_from_jobs(limit)
Synced(limit) ==
    LET latest_jobs == get_latest_completed_model_jobs(limit)
    IN  IF latest_jobs = <<>> THEN model_rows
        ELSE SyncFrom(model_rows, latest_jobs, 0, Len(model_rows))

\* ids of rows, ORDER BY last_completed_job_at DESC
RECURSIVE RowsDesc(_, _)
RowsDesc(rows, ids) ==
    IF ids = {} THEN <<>>
    ELSE LET first == CHOOSE id \in ids :
                 \A k \in ids : rows[k].last_completed_job_at <= rows[id].last_completed_job_at
         IN  <<first>> \o RowsDesc(rows, ids \ {first})

\* database.py:676-727: the SELECT of get_embedding_models
ListModels(rows, limit, active_only) ==
    LET ordered == RowsDesc(rows, {id \in 1..Len(rows) : active_only => rows[id].is_active})
    IN  SubSeq(ordered, 1, Min(limit, Len(ordered)))

\* export-sql-backup-to-chromadb.py:949-959, database.py:410-462: an ingest completes
complete_export_job(triple) ==
    /\ Len(completed_jobs) < MaxCompletedJobs
    /\ completed_jobs' = Append(completed_jobs,
                                [triple |-> triple, completed_at |-> SyncNow + 1])
    /\ sync_last' = [NoSyncCall EXCEPT !.op = "complete_export_job"]
    /\ UNCHANGED model_rows
    /\ UNCHANGED <<webVars, pageVars, db_writer, voteVars, ingestVars, approvalVars, usageVars, chunkVars>>

\* database.py:619-666
sync_embedding_models_from_jobs(limit) ==
    /\ model_rows' = Synced(limit)
    /\ sync_last' = [NoSyncCall EXCEPT !.op = "sync_embedding_models_from_jobs",
                                       !.limit = limit]
    /\ UNCHANGED completed_jobs
    /\ UNCHANGED <<webVars, pageVars, db_writer, voteVars, ingestVars, approvalVars, usageVars, chunkVars>>

\* database.py:669-727 with ensure_sync left at its default; app.py:1706, 1728
get_embedding_models(limit, active_only) ==
    /\ model_rows' = Synced(limit)
    /\ sync_last' = [NoSyncCall EXCEPT !.op = "get_embedding_models", !.limit = limit,
                                       !.listing = ListModels(Synced(limit), limit, active_only)]
    /\ UNCHANGED completed_jobs
    /\ UNCHANGED <<webVars, pageVars, db_writer, voteVars, ingestVars, approvalVars, usageVars, chunkVars>>

\* database.py:835-848, on the full row
set_embedding_model_active_row(model_id, is_active) ==
    /\ model_rows' = [id \in 1..Len(model_rows) |->
                         IF id = model_id
                         THEN [model_rows[id] EXCEPT !.is_active = is_active,
                                                     !.updated_at = SyncNow]
                         ELSE model_rows[id]]
    /\ sync_last' = [NoSyncCall EXCEPT !.op = "set_embedding_model_active",
                                       !.model_id = model_id]
    /\ UNCHANGED completed_jobs
    /\ UNCHANGED <<webVars, pageVars, db_writer, voteVars, ingestVars, approvalVars, usageVars, chunkVars>>

\* database.py:851-864
update_embedding_model_color(model_id, color) ==
    /\ model_rows' = IF color = EmptyColor THEN model_rows
                     ELSE [id \in 1..Len(model_rows) |->
                              IF id = model_id
                              THEN [model_rows[id] EXCEPT !.color = color,
                                                          !.updated_at = SyncNow]
                              ELSE model_rows[id]]
    /\ sync_last' = [NoSyncCall EXCEPT !.op = "update_embedding_model_color",
                                       !.model_id = model_id]
    /\ UNCHANGED completed_jobs
    /\ UNCHANGED <<webVars, pageVars, db_writer, voteVars, ingestVars, approvalVars, usageVars, chunkVars>>

NextSync ==
    \/ \E triple \in Triples : complete_export_job(triple)
    \/ \E limit \in 1..MaxSyncLimit : sync_embedding_models_from_jobs(limit)
    \/ \E limit \in 1..MaxSyncLimit, active_only \in BOOLEAN :
          get_embedding_models(limit, active_only)
    \/ \E model_id \in 1..Cardinality(Triples), is_active \in BOOLEAN :
          set_embedding_model_active_row(model_id, is_active)
    \/ \E model_id \in 1..Cardinality(Triples), color \in AdminColors :
          update_embedding_model_color(model_id, color)

IdleTail == IdleIngest /\ IdleApprovals /\ IdleUsage /\ IdleChunk /\ IdleSync
IdleData == IdlePage /\ db_writer = 0 /\ IdleVotes /\ IdleTail

InitAuth == AuthInit /\ IdleMerge /\ IdleSearch /\ IdleData
InitMerge == IdleAuth /\ MergeInit /\ IdleSearch /\ IdleData
InitMulti == IdleAuth /\ IdleMerge /\ SearchInit /\ IdleData
InitSingle == IdleAuth /\ IdleMerge /\ SearchInit /\ IdleData
InitPage == IdleWeb /\ PageInit /\ db_writer = 0 /\ IdleVotes /\ IdleTail
InitVotes == IdleWeb /\ IdlePage /\ VotesInit /\ IdleTail
InitIngest == IdleWeb /\ IdlePage /\ db_writer = 0 /\ IdleVotes /\ IngestInit /\ IdleApprovals /\ IdleUsage /\ IdleChunk /\ IdleSync
InitApprovals == IdleWeb /\ IdleData
InitUsage == AuthInit /\ IdleMerge /\ IdleSearch /\ IdleData

SpecAuth == InitAuth /\ [][NextAuth]_vars
SpecMerge == InitMerge /\ [][NextMerge]_vars
SpecMulti == InitMulti /\ [][NextMulti]_vars
SpecSingle == InitSingle /\ [][NextSingle]_vars
SpecPage == InitPage /\ [][NextPage]_vars
SpecVotes == InitVotes /\ [][NextVotes]_vars
SpecIngest == InitIngest /\ [][NextIngest]_vars
SpecApprovals == InitApprovals /\ [][NextApprovals]_vars
SpecUsage == InitUsage /\ [][NextUsage]_vars

InitSegment ==
    /\ IdleWeb /\ IdlePage /\ db_writer = 0 /\ IdleVotes
    /\ IdleIngest /\ IdleApprovals /\ IdleUsage /\ IdleSync
    /\ SegInit /\ pp = IdlePp /\ tot = IdleTot

InitPrepare ==
    /\ IdleWeb /\ IdlePage /\ db_writer = 0 /\ IdleVotes
    /\ IdleIngest /\ IdleApprovals /\ IdleUsage /\ IdleSync
    /\ seg = IdleSeg /\ PpInit /\ tot = IdleTot

SpecPrepare == InitPrepare /\ [][NextPrepare]_vars

InitTotals ==
    /\ IdleWeb /\ IdlePage /\ db_writer = 0 /\ IdleVotes
    /\ IdleIngest /\ IdleApprovals /\ IdleUsage /\ IdleSync
    /\ seg = IdleSeg /\ pp = IdlePp /\ TotInit

SpecTotals == InitTotals /\ [][NextTotals]_vars

InitSync == IdleWeb /\ IdleData

SpecSync == InitSync /\ [][NextSync]_vars

SpecSegment == InitSegment /\ [][NextSegment]_vars

\* the interpreter keeps executing the loop
SpecSegmentLive == SpecSegment /\ WF_vars(NextSegment)

(***************************************************************************)
(* C7  The merged list of a live /search/multi request with k >= 2         *)
(* distinct models is the reference round-robin merge with                 *)
(* per_model_limit = ceil(20 / k) and overall_limit =                      *)
(* min(per_model_limit * k, 20): the hits laid out depth by depth and,     *)
(* within a depth, in submission order of the successful models, every     *)
(* document kept at its first position only, cut after overall_limit; with *)
(* one successful model, the first per_model_limit hits of that model.     *)
(***************************************************************************)
ReferenceMerge(successful, lists, k) ==
    LET ref_per_model_limit == CeilDiv(20, k)
        ref_overall_limit == Min(ref_per_model_limit * k, 20)
        n == Len(successful)
        D == MaxLen({lists[m] : m \in SeqRange(successful)})
        AllPos == [p \in 1..(D * n) |-> [depth |-> (p - 1) \div n, j |-> ((p - 1) % n) + 1]]
        Present == SelectSeq(AllPos, LAMBDA q : q.depth < Len(lists[successful[q.j]]))
        Cand == [i \in 1..Len(Present) |->
                    lists[successful[Present[i].j]][Present[i].depth + 1]]
        Idx == [i \in 1..Len(Cand) |-> i]
        Keep == SelectSeq(Idx, LAMBDA i : \A h \in 1..(i - 1) : Cand[h].id # Cand[i].id)
    IN  IF n = 1 THEN Take(lists[successful[1]], ref_per_model_limit)
        ELSE [t \in 1..Min(ref_overall_limit, Len(Keep)) |-> Cand[Keep[t]]]

C1_ProtectedPathNeedsToken ==
    (last.status # -1 /\ enable_api_auth /\ ~DocumentedPublic(last.path) /\ ~last.verified)
        => (last.status = 401 /\ ~last.handler)

(***************************************************************************)
(* C2  Requests of one token with daily limit L arriving one after another *)
(* within one UTC day on a protected path, auth enabled: the 1st to the    *)
(* L-th reach the handler, every later one is answered 429 with            *)
(* Retry-After: 86400 and does not reach the handler.                      *)
(***************************************************************************)
C2_DailyLimitSequential ==
    (last.status # -1 /\ enable_api_auth /\ last.sequential /\ last.ordinal >= 1)
        => IF last.ordinal <= last.limit
           THEN last.handler
           ELSE last.status = 429 /\ last.retry_after = 86400 /\ ~last.handler

(***************************************************************************)
(* C3  Under every interleaving of the requests of one valid token, the    *)
(* number of them admitted past the rate-limit check in one UTC day never  *)
(* exceeds the token's rate_limit_per_day, and neither does the stored     *)
(* request_count of (token_id, date).                                      *)
(***************************************************************************)
C3_AdmittedWithinLimit ==
    \A t \in TokenIds :
        /\ admitted[t] <= api_tokens[t].rate_limit_per_day
        /\ \A d \in 0..Date(MaxTime) :
              api_token_usage[<<t, d>>] <= api_tokens[t].rate_limit_per_day

(***************************************************************************)
(* C4  With auth enabled, a request to a protected path is rejected with   *)
(* 401 when the Authorization header is missing, when it does not start    *)
(* with "Bearer ", when the token's hash matches no stored token or the    *)
(* token or its user is inactive, and when the token has expired; the      *)
(* handler is not invoked and no api_token_usage counter changes.          *)
(***************************************************************************)
C4_RejectionCases ==
    \A reason \in {"Authorization header required", "Invalid authorization format",
                   "Invalid or expired token", "Token has expired"} :
        (last.status # -1 /\ enable_api_auth /\ ~DocumentedPublic(last.path)
            /\ last.reason = reason)
          => (last.status = 401 /\ ~last.handler /\ ~last.usage_changed)

(***************************************************************************)
(* C5  No two entries of the merged list of a /search/multi request have   *)
(* the same document id, whatever the per-model result lists and whichever *)
(* of the requested models succeeded.                                      *)
(***************************************************************************)
C5_NoDuplicateDocumentIds ==
    mg_out.done =>
        \A i, j \in 1..Len(mg_out.results) :
            i # j => mg_out.results[i].id # mg_out.results[j].id

\* two successful models returned the same document and it is in the merged list
C5_Witness ==
    /\ mg_out.done
    /\ \E m1, m2 \in SeqRange(mg_out.successful_model_ids) :
          /\ m1 # m2
          /\ \E a \in 1..Len(mg_out.per_model_results[m1]),
                b \in 1..Len(mg_out.per_model_results[m2]),
                i \in 1..Len(mg_out.results) :
                /\ a # b
                /\ mg_out.per_model_results[m1][a].id = mg_out.per_model_results[m2][b].id
                /\ mg_out.results[i].id = mg_out.per_model_results[m1][a].id

(***************************************************************************)
(* C6  When several of the requested models return the same document id,   *)
(* at any ranks, the copy kept in the merged list carries the model_id of  *)
(* the earliest-submitted model among those that returned it.              *)
(***************************************************************************)
C6_KeptCopyFromEarliestModel ==
    mg_out.done =>
        \A i \in 1..Len(mg_out.results) :
            LET kept == mg_out.results[i]
                holders ==
                    SelectSeq(mg_out.successful_model_ids,
                              LAMBDA m : \E k \in 1..Len(mg_out.per_model_results[m]) :
                                            mg_out.per_model_results[m][k].id = kept.id)
            IN  kept.model_id = holders[1]

(***************************************************************************)
(* C8  A /search/multi request that passed validation and was computed     *)
(* live: if at least one model's query succeeded the answer is 200, every  *)
(* hit in it is a hit of a successful model, and errors holds one entry    *)
(* (collection, model, error) per failed model, in submission order, and   *)
(* is null when no model failed; if every model failed the answer is 502   *)
(* with the error of the first failed model, and the step that answers 502 *)
(* changes neither the cache nor the history table.                        *)
(***************************************************************************)
C8_Answer ==
    (mm.pc = "done" /\ mm.idx > 0) =>
        LET per_model_results == mm.per_model_results
            failed == SelectSeq(mm.ordered_ids, LAMBDA m : m \notin DOMAIN per_model_results)
            body == mm.response.body
        IN  IF DOMAIN per_model_results # {}
            THEN /\ mm.response.status = 200
                 /\ \A i \in 1..Len(body.results) :
                       /\ body.results[i].model_id \in DOMAIN per_model_results
                       /\ body.results[i] \in SeqRange(per_model_results[body.results[i].model_id])
                 /\ body.errors.null <=> failed = <<>>
                 /\ Len(body.errors.list) = Len(failed)
                 /\ \A i \in 1..Len(failed) :
                       /\ body.errors.list[i].collection = ModelCatalog[failed[i]].collection
                       /\ body.errors.list[i].model = ModelCatalog[failed[i]].embedding_model
                       /\ body.errors.list[i].error.kind
                              \in {"collection_unavailable", "search_failed"}
            ELSE /\ mm.response.status = 502
                 /\ mm.response.detail.error = mm.model_errors[1].error
                 /\ mm.response.detail.error.collection = ModelCatalog[mm.ordered_ids[1]].collection
                 /\ Len(search_history) = mm.history_mark

C8_NothingStoredOn502 ==
    (mm.pc = "fetch" /\ mm'.pc = "done" /\ mm'.response.status = 502) =>
        (redis' = redis /\ search_history' = search_history)

\* C8: the answer of every live request, and the 502 step stores nothing
C8_PartialFailures == []C8_Answer /\ [][C8_NothingStoredOn502]_vars

\* a 200 answer with hits of one model and the error entry of the other
C8_Witness ==
    /\ mm.pc = "done"
    /\ mm.response.status = 200
    /\ mm.response.cache_source = "live"
    /\ mm.response.body.results # <<>>
    /\ ~mm.response.body.errors.null
    /\ Len(mm.ordered_ids) = 2

(***************************************************************************)
(* C9  In /search (with model_id) and /search/multi, a request naming a    *)
(* model id without a row is answered 404 and one naming an inactive model *)
(* 400, and the step that receives it makes no other call and changes      *)
(* neither the cache nor the history table; so a request for a model that  *)
(* is inactive when it arrives is never answered from the cache.           *)
(***************************************************************************)
C9_RejectedBy(request, status_code) ==
    /\ request.pc = "done"
    /\ request.response.status = status_code
    /\ request.calls = <<>>
    /\ redis' = redis
    /\ search_history' = search_history

C9_SingleStep ==
    (served' # served /\ sd'.pc # "idle" /\ mm'.pc = "idle" /\ sd'.payload.model_id.has_model_id) =>
        LET model_id == sd'.payload.model_id.model_id
        IN  IF model_id \notin DOMAIN embedding_models THEN C9_RejectedBy(sd', 404)
            ELSE ~embedding_models[model_id].is_active => C9_RejectedBy(sd', 400)

C9_MultiStep ==
    (served' # served /\ mm'.pc # "idle" /\ sd'.pc = "idle") =>
        LET ids == SeqRange(mm'.payload.model_ids)
        IN  IF \E m \in ids : m \notin DOMAIN embedding_models THEN C9_RejectedBy(mm', 404)
            ELSE (\E m \in ids : ~embedding_models[m].is_active) => C9_RejectedBy(mm', 400)

\* C9: every step that receives a /search or /search/multi request validates the model first
C9_ModelValidatedFirst == [][C9_SingleStep /\ C9_MultiStep]_vars

(***************************************************************************)
(* C10 (as claimed)  A /search/multi request with save = true answered 200 *)
(* appends exactly one search_history row for each model whose query       *)
(* succeeded, carrying that model's collection, provider and model; with   *)
(* save = false it appends none.                                           *)
(***************************************************************************)
C10_Appended == SubSeq(search_history, mm.history_mark + 1, Len(search_history))

C10_RowOf(row, model_id) ==
    /\ row.collection = ModelCatalog[model_id].collection
    /\ row.provider = ModelCatalog[model_id].embedding_provider
    /\ row.model = ModelCatalog[model_id].embedding_model

\* C10 as claimed: one row per model whose query succeeded
C10_OneRowPerSuccessfulModel ==
    mm.pc = "done" =>
        /\ (mm.response.status = 200 /\ mm.payload.save) =>
              /\ Len(C10_Appended) = Cardinality(DOMAIN mm.per_model_results)
              /\ \A m \in DOMAIN mm.per_model_results :
                    Cardinality({i \in 1..Len(C10_Appended) : C10_RowOf(C10_Appended[i], m)}) = 1
        /\ ~mm.payload.save => C10_Appended = <<>>

(***************************************************************************)
(* C10 (amended)  A /search/multi request with save = true answered 200    *)
(* from a live computation appends one search_history row for each         *)
(* successful model that returned at least one hit and whose save_search   *)
(* call did not fail, in submission order, each carrying the query, the    *)
(* number of that model's hits within per_model_limit, and that model's    *)
(* collection, provider and model; it appends none for a successful model  *)
(* without hits; an answer served from the cache, any other answer, and    *)
(* any request with save = false append no row.                            *)
(***************************************************************************)
C10_RowsOfLiveSavedRequests ==
    mm.pc = "done" =>
        LET per_model_results == mm.per_model_results
            writers ==
                IF mm.response.status = 200 /\ mm.response.cache_source = "live" /\ mm.payload.save
                THEN SelectSeq(mm.ordered_ids,
                               LAMBDA m : /\ m \in DOMAIN per_model_results
                                          /\ per_model_results[m] # <<>>
                                          /\ m \notin mm.save_failed)
                ELSE <<>>
        IN  /\ Len(C10_Appended) = Len(writers)
            /\ \A i \in 1..Len(writers) :
                  /\ C10_RowOf(C10_Appended[i], writers[i])
                  /\ C10_Appended[i].query = mm.payload.query
                  /\ C10_Appended[i].result_count =
                         Min(Len(per_model_results[writers[i]]), mm.per_model_limit)

\* two successful models with hits, both rows written
C10_Witness ==
    /\ mm.pc = "done"
    /\ mm.response.status = 200
    /\ mm.response.cache_source = "live"
    /\ mm.payload.save
    /\ Cardinality(DOMAIN mm.per_model_results) = 2
    /\ Len(C10_Appended) = 2
    /\ C10_Appended[1].collection # C10_Appended[2].collection

(***************************************************************************)
(* C12  Every 200 answer of /search/multi, computed live or served from    *)
(* the cache, has model_ids equal to the request's own ids, de-duplicated, *)
(* in submission order, and a live answer lists the round-robin merge for  *)
(* that order.                                                             *)
(***************************************************************************)
C12_AnswerFollowsSubmissionOrder ==
    (mm.pc = "done" /\ mm.response.status = 200) =>
        /\ mm.response.body.model_ids = OrderedIds(mm.payload.model_ids)
        /\ mm.response.cache_source = "live" =>
              mm.response.body.results =
                  CombineResults(SelectSeq(mm.ordered_ids,
                                           LAMBDA m : m \in DOMAIN mm.per_model_results),
                                 mm.per_model_results, mm.per_model_limit, mm.overall_limit)

(***************************************************************************)
(* C11 (as claimed)  Two consecutive /search requests with use_cache =     *)
(* true, equal in normalized query, provider, model, collection, top_k,    *)
(* page, page_size and include_full_context, the cache answering and the   *)
(* first one computed with at least one result: the first is answered      *)
(* "realtime" and the second, while the stored entry is there, is answered *)
(* from the cache with the same result list and without any vector-store   *)
(* query.                                                                  *)
(***************************************************************************)
C11_Triple(payload) ==
    IF Truthy(payload.model_id) /\ payload.model_id.model_id \in DOMAIN embedding_models
    THEN <<ModelCatalog[payload.model_id.model_id].embedding_provider,
           ModelCatalog[payload.model_id.model_id].embedding_model,
           ModelCatalog[payload.model_id.model_id].collection>>
    ELSE IF Truthy(payload.model_id) THEN <<"", "", "">>
    ELSE <<DefaultSettings.embedding_provider, DefaultSettings.embedding_model,
           DefaultSettings.chroma_collection>>

C11_SameSearch(first, second) ==
    /\ first.use_cache /\ second.use_cache
    /\ NormalizeQuery(first.query) = NormalizeQuery(second.query)
    /\ C11_Triple(first) = C11_Triple(second)
    /\ first.top_k = second.top_k /\ first.page = second.page
    /\ first.page_size = second.page_size
    /\ first.include_full_context = second.include_full_context

\* the step receives a request that repeats the search just answered live and stored
C11_Repeats ==
    /\ served' # served
    /\ sd.pc = "done" /\ redis_client
    /\ C11_SameSearch(sd.payload, sd'.payload)
    /\ sd.response.status = 200 /\ sd.response.body.results # <<>>
    /\ "query" \in SeqRange(sd.calls)
    /\ ~sd.read_failed /\ ~sd.write_failed /\ ~sd'.read_failed
    /\ \E e \in redis : e.value = JsonDumps(sd.response.body)

C11_ServedFromCache ==
    /\ sd.response.cache_source = "realtime"
    /\ sd'.pc = "done"
    /\ sd'.response.status = 200
    /\ sd'.response.cache_source = "cache"
    /\ sd'.response.body.results = sd.response.body.results
    /\ "query" \notin SeqRange(sd'.calls)

C13_LiveAnswer ==
    (sd.pc = "done" /\ "query" \in SeqRange(sd.calls)) =>
        IF sd.query_failed
        THEN sd.response.status = 502 /\ ~sd.write_failed /\ ~sd.save_failed
        ELSE /\ sd.response.status = 200
             /\ sd.response.cache_source = "realtime"
             /\ sd.response.body.results =
                    PageOf(sd.fetched, sd.payload.page, sd.payload.page_size)
             /\ sd.response.body.returned = Len(sd.response.body.results)

C13_ReadFailureIsMiss ==
    (/\ served' # served
     /\ sd'.actual_collection # ""
     /\ sd'.payload.use_cache /\ redis_client
     /\ \/ sd'.read_failed
        \/ \E e \in redis :
              /\ ~JsonValid(e.value)
              /\ e.key.digest = Sha256(NormalizeQuery(sd'.payload.query))
              /\ e.key.model_part =
                     <<sd'.actual_provider, sd'.actual_model, sd'.actual_collection>>
              /\ e.key.top_k = sd'.payload.top_k /\ e.key.page = sd'.payload.page
              /\ e.key.page_size = sd'.payload.page_size)
    => (sd'.pc = "query" /\ sd'.response.cache_source # "cache")

\* C13: read failures are misses, and write and save failures leave the answer as computed
C13_CacheAndSaveFailuresTolerated == []C13_LiveAnswer /\ [][C13_ReadFailureIsMiss]_vars

\* a request that met undecodable text or a failed read, then a failed write and a failed save
C13_Witness ==
    /\ sd.pc = "done"
    /\ sd.read_failed /\ sd.write_failed /\ sd.save_failed
    /\ sd.response.status = 200
    /\ sd.response.body.results # <<>>

(***************************************************************************)
(* C14  With pagination enabled /search fetches                            *)
(* n = clamp(page * page_size, page_size, max_estimated_results) hits and  *)
(* returns the hits at positions [(page-1)*page_size, page*page_size) of   *)
(* the fetched list; page 1 returns the first page_size hits; a page whose *)
(* window starts at or beyond the end of the fetched list has an empty     *)
(* result list and has_next_page = false; has_previous_page is page > 1.   *)
(***************************************************************************)
C14_PageWindow ==
    (pg_out.done /\ pg_in.enable_pagination) =>
        LET first == (pg_in.page - 1) * pg_in.page_size
        IN  /\ pg_out.n_results =
                   Max(pg_in.page_size,
                       Min(pg_in.page * pg_in.page_size, pg_in.max_estimated_results))
            /\ Len(pg_out.fetched) = Min(pg_out.n_results, pg_in.collection_count)
            /\ Len(pg_out.results) =
                   Max(0, Min(first + pg_in.page_size, Len(pg_out.fetched)) - first)
            /\ \A i \in 1..Len(pg_out.results) : pg_out.results[i] = pg_out.fetched[first + i]
            /\ pg_out.pagination.has_previous_page <=> pg_in.page > 1
            /\ first >= Len(pg_out.fetched) =>
                   (pg_out.results = <<>> /\ ~pg_out.pagination.has_next_page)

(***************************************************************************)
(* C15  Under the default configuration every 200 answer of /search has    *)
(* returned equal to the length of results and at most the request's       *)
(* top_k.                                                                  *)
(***************************************************************************)
C15_ReturnedWithinTopK ==
    (/\ pg_out.done
     /\ pg_in.enable_pagination /\ pg_in.enable_estimated_results
     /\ pg_in.max_estimated_results = MaxEstimatedDefault)
    => (pg_out.returned = Len(pg_out.results) /\ pg_out.returned <= pg_in.top_k)

(***************************************************************************)
(* C16  After any sequence of save_search_vote calls, concurrent ones      *)
(* included, search_votes holds at most one row for each                   *)
(* (guest_user_id, query, model_id-or-null, result_id-or-null); the row    *)
(* carries the vote_type of the latest committed call for that tuple, a    *)
(* tuple no call committed has no row, and a commit changes the rows of    *)
(* its own tuple only.                                                     *)
(***************************************************************************)
C16_Tuple(x) == <<x.guest_user_id, x.query, x.model_id, x.result_id>>

C16_OneRowPerTuple ==
    \A r1, r2 \in search_votes : C16_Tuple(r1) = C16_Tuple(r2) => r1 = r2

C16_LatestVote ==
    \A t \in {C16_Tuple(r) : r \in search_votes} \cup
             {C16_Tuple(vote_log[i]) : i \in 1..Len(vote_log)} :
        LET calls == {i \in 1..Len(vote_log) : C16_Tuple(vote_log[i]) = t}
            rows == {r \in search_votes : C16_Tuple(r) = t}
        IN  /\ calls # {}
            /\ \E r \in rows :
                  /\ rows = {r}
                  /\ \E i \in calls :
                        /\ \A j \in calls : j <= i
                        /\ r.vote_type = vote_log[i].vote_type

C16_OthersUnchanged ==
    \A r \in search_votes \cup search_votes' :
        ((r \in search_votes) # (r \in search_votes')) =>
            \E conn \in Conns :
                /\ vote_calls[conn].pc = "inserted" /\ vote_calls'[conn].pc = "returned"
                /\ C16_Tuple(r) = C16_Tuple(vote_calls[conn])

\* C16: one row per tuple, carrying the latest committed vote; other tuples untouched
C16_OneVotePerTuple ==
    [](C16_OneRowPerTuple /\ C16_LatestVote) /\ [][C16_OthersUnchanged]_vars

\* like then dislike committed on one tuple beside the vote of another tuple, while a
\* concurrent call was shut out
C16_Witness ==
    /\ Len(vote_log) = 2
    /\ vote_log[1].vote_type = "like" /\ vote_log[2].vote_type = "dislike"
    /\ C16_Tuple(vote_log[1]) = C16_Tuple(vote_log[2])
    /\ Cardinality(search_votes) = 1
    /\ \E conn \in Conns :
          vote_calls[conn].pc = "raised" /\ vote_calls[conn].vote_type \in VoteTypes

(***************************************************************************)
(* C17  Every export_jobs row is created with status "running"; over a run *)
(* of the ingest its status changes exactly once, to "completed" or to     *)
(* "failed"; a job that is "completed" or "failed" keeps that status, and  *)
(* no job is completed and later failed.                                   *)
(***************************************************************************)
C17_Terminal == {"completed", "failed"}

C17_Changes(job_id) ==
    Cardinality({i \in 1..(Len(job_status_log[job_id]) - 1) :
                    job_status_log[job_id][i] # job_status_log[job_id][i + 1]})

C17_RunEnded == ingest.pc \in {"exit 0", "exit 1"} /\ ingest.job_id # 0

C17_CreatedRunning ==
    Len(export_jobs') > Len(export_jobs) =>
        /\ Len(export_jobs') = Len(export_jobs) + 1
        /\ export_jobs'[Len(export_jobs')].status = "running"

C17_TerminalKept ==
    \A job_id \in 1..Len(export_jobs) :
        export_jobs[job_id].status \in C17_Terminal =>
            export_jobs'[job_id].status = export_jobs[job_id].status

C17_ChangedOnce(job_id) ==
    /\ C17_Changes(job_id) = 1
    /\ export_jobs[job_id].status \in C17_Terminal

C17_ExactlyOnce == C17_RunEnded => C17_ChangedOnce(ingest.job_id)

C17_AtMostOnce ==
    \A job_id \in 1..Len(export_jobs) :
        \/ C17_ChangedOnce(job_id)
        \/ C17_Changes(job_id) = 0 /\ export_jobs[job_id].status = "running"

C17_ExactlyOnceWhenRecorded ==
    (C17_RunEnded /\ ~ingest.update_failed) => C17_ChangedOnce(ingest.job_id)

C18_BatchRaised ==
    /\ ingest.pc \in {"except", "exit 1"}
    /\ ingest.job_id # 0
    /\ ingest.exc.message[1] \in {"embed", "add"}

C18_NoLaterBatch ==
    C18_BatchRaised =>
        LET failed == ingest.exc.message[2]
        IN  /\ \A i \in 1..Len(ingest.written) : ingest.written[i] < failed
            /\ \A i \in 1..Len(ingest.embedded) :
                  IF ingest.exc.message[1] = "embed"
                  THEN ingest.embedded[i] < failed
                  ELSE ingest.embedded[i] <= failed
            /\ failed = ingest.batch_number

C18_MarkedFailed ==
    /\ export_jobs[ingest.job_id].status = "failed"
    /\ export_jobs[ingest.job_id].error_message = ingest.exc.message
    /\ job_status_log[ingest.job_id] = <<"running", "failed">>

C19_Returns(conn) == save_calls[conn].pc = "counted" /\ save_calls'[conn].pc = "returned"

C19_SavedSearchCounted ==
    [][\A conn \in Conns :
          C19_Returns(conn) =>
              LET query == save_calls[conn].query
              IN  /\ Len(search_history') = Len(search_history) + 1
                  /\ search_history'[Len(search_history')].query = query
                  /\ query_approvals'[query].present
                  /\ query_approvals'[query].search_count =
                         save_calls[conn].count_before + 1]_vars

(***************************************************************************)
(* C20  approve_query is idempotent: a call of approve_query(q) that       *)
(* directly follows a call of approve_query(q), with the same notes or     *)
(* with none, changes nothing but approved_at of the row of q, which takes *)
(* the time of the later call; the row of q exists, is "approved" and has  *)
(* no rejected_at, and its search_count, last_searched_at and - when no    *)
(* notes are passed - notes are as before.                                 *)
(***************************************************************************)
C20_Approves == approval_last'.op = "approve_query" /\ approval_last' # approval_last

C20_Repeats ==
    /\ C20_Approves
    /\ approval_last.op = "approve_query"
    /\ approval_last'.query = approval_last.query
    /\ approval_last'.notes.null \/ approval_last'.notes = approval_last.notes

C20_ApprovedOnce ==
    C20_Approves =>
        LET q == approval_last'.query
        IN  /\ query_approvals'[q].present
            /\ query_approvals'[q].status = "approved"
            /\ query_approvals'[q].approved_at = utcnow
            /\ query_approvals'[q].rejected_at = NoTime
            /\ query_approvals'[q].search_count = query_approvals[q].search_count
            /\ query_approvals'[q].last_searched_at = query_approvals[q].last_searched_at
            /\ (approval_last'.notes.null /\ query_approvals[q].present) =>
                   query_approvals'[q].notes = query_approvals[q].notes
            /\ \A other \in Queries \ {q} : query_approvals'[other] = query_approvals[other]

C20_SecondChangesTimeOnly ==
    C20_Repeats =>
        query_approvals' =
            [query_approvals EXCEPT ![approval_last'.query].approved_at = utcnow]

\* C20: the second of two consecutive approve_query(q) calls rewrites approved_at only
C20_ApproveIdempotent == [][C20_ApprovedOnce /\ C20_SecondChangesTimeOnly]_vars

\* a searched and rejected query with notes, approved twice in a row without notes
C20_Witness ==
    \E q \in Queries :
        /\ approval_last =
               [op |-> "approve_query", query |-> q, notes |-> NullText, at |-> MaxDbCalls]
        /\ query_approvals[q].status = "approved"
        /\ query_approvals[q].approved_at = MaxDbCalls
        /\ query_approvals[q].search_count = 1
        /\ query_approvals[q].notes = SqlText("n1")
        /\ utcnow = MaxDbCalls + 1

(***************************************************************************)
(* C21  For each token the count returned by get_token_usage_today never   *)
(* decreases between two reads on the same UTC date, and the first read on *)
(* the following UTC date returns 0.                                       *)
(***************************************************************************)
C21_SameDay(i, j) ==
    usage_log[i].token_id = usage_log[j].token_id /\ usage_log[i].date = usage_log[j].date

C21_Monotone ==
    \A i, j \in 1..Len(usage_log) :
        (i < j /\ C21_SameDay(i, j)) => usage_log[i].value <= usage_log[j].value

\* read j is the first one of its token on the date after a date on which it was read
C21_FirstOfNextDay(j) ==
    /\ \A i \in 1..(j - 1) : ~C21_SameDay(i, j)
    /\ \E i \in 1..(j - 1) :
          /\ usage_log[i].token_id = usage_log[j].token_id
          /\ usage_log[i].date + 1 = usage_log[j].date

C22_UpstreamFailed(request) ==
    /\ request.pc = "done"
    /\ \/ request.calls = <<"get_collection">>
       \/ request.query_failed

C22_Answered502 == C22_UpstreamFailed(sd) => sd.response.status = 502

C22_NothingStored ==
    (served' # served \/ sd'.pc # sd.pc) =>
        (C22_UpstreamFailed(sd') => (redis' = redis /\ search_history' = search_history))

\* C22: upstream failures are answered 502 and store nothing
C22_UpstreamFailuresAre502 == []C22_Answered502 /\ [][C22_NothingStored]_vars

\* ---------------------------------------------------------------------------
\* C23: ingest collection selection

C23_Opens == ingest.pc = "open" /\ ingest'.pc = "batch"

C23_Writing == ingest.pc \in {"batch", "add"}

C23_Fresh == [exists |-> TRUE, docs |-> {}]

\* what opening the collection resolves to, case by case
C23_Selection ==
    C23_Opens =>
        /\ ingest.reset =>
              /\ ingest'.collection = TargetName
              /\ chroma'[TargetName] = C23_Fresh
        /\ (~ingest.reset /\ chroma[TargetName].exists) =>
              /\ ingest'.collection = TargetName \o <<"_", wall_clock>>
              /\ chroma'[ingest'.collection].exists
              /\ chroma'[TargetName] = chroma[TargetName]
        /\ (~ingest.reset /\ ~chroma[TargetName].exists) =>
              /\ ingest'.collection = TargetName
              /\ chroma'[TargetName] = C23_Fresh
        /\ \A n \in CollectionNames \ {TargetName, ingest'.collection} : chroma'[n] = chroma[n]

\* after opening, documents go only into the collection the run selected
C23_WritesOnlySelected ==
    ~C23_Opens =>
        \A n \in CollectionNames :
            chroma'[n] # chroma[n] =>
                /\ C23_Writing
                /\ n = ingest.collection
                /\ chroma'[n].exists
                /\ chroma[n].docs \subseteq chroma'[n].docs

\* a run without reset that found the target never touches it
C23_ExistingUntouched ==
    (C23_Writing /\ ~ingest.reset /\ ingest.found.exists) =>
        /\ ingest.collection # TargetName
        /\ chroma[TargetName] = ingest.found

\* C23: with reset the target collection is dropped (a missing one tolerated) and the run
\* writes into a newly created collection of exactly the target name; without reset an
\* existing target collection gains and loses no document and the run writes only into
\* the collection named <name>_<timestamp>; a missing target is created under its name.
C23_CollectionSelection ==
    []C23_ExistingUntouched /\ [][C23_Selection /\ C23_WritesOnlySelected]_vars

\* a run without reset has written a batch into the suffixed collection while the target
\* collection of the earlier ingest still holds its documents
C23_Witness ==
    /\ ~ingest.reset
    /\ ingest.found.exists
    /\ ingest.collection = SuffixedName(TargetName, wall_clock)
    /\ Len(ingest.written) > 0
    /\ chroma[ingest.collection].docs # {}
    /\ chroma[TargetName] = OldCollection

\* ---------------------------------------------------------------------------
\* C24: segment_paragraph returns the windows of the reference chunker

RECURSIVE C24_WindowsFrom(_, _, _, _)
C24_WindowsFrom(start, n, max_length, step) ==
    LET end == IF start + max_length <= n THEN start + max_length ELSE n
    IN  IF end = n THEN <<(<<start, end>>)>>
        ELSE <<(<<start, end>>)>> \o C24_WindowsFrom(start + step, n, max_length, step)

C24_Reference(n, max_length, context_length) ==
    IF n <= max_length THEN <<(<<0, n>>)>>
    ELSE C24_WindowsFrom(0, n, max_length,
                         IF max_length - context_length >= 1
                         THEN max_length - context_length ELSE 1)

C24_Windows == [i \in 1..Len(seg.segments) |-> <<seg.segments[i].start, seg.segments[i].end>>]

\* the part of window i that no earlier window covers
C24_Fresh(i) ==
    LET w == seg.segments[i]
        covered == IF i = 1 THEN 0 ELSE seg.segments[i - 1].end
    IN  SubSeq(w.text, covered - w.start + 1, Len(w.text))

RECURSIVE C24_Concat(_)
C24_Concat(i) == IF i = 0 THEN <<>> ELSE C24_Concat(i - 1) \o C24_Fresh(i)

C24_Returned == seg.pc = "returned"

C24_SameWindows ==
    /\ C24_Windows = C24_Reference(Len(seg.paragraph), seg.max_length, seg.context_length)
    /\ \A i \in 1..Len(seg.segments) :
          seg.segments[i].text =
              [k \in 1..(seg.segments[i].end - seg.segments[i].start) |->
                  seg.paragraph[seg.segments[i].start + k]]
    /\ seg.segments[Len(seg.segments)].end = Len(seg.paragraph)

C24_Consequences ==
    /\ \A i \in 1..Len(seg.segments) : Len(seg.segments[i].text) <= seg.max_length
    /\ \A i \in 1..(Len(seg.segments) - 1) :
          seg.segments[i + 1].start <= seg.segments[i].end
    /\ C24_Concat(Len(seg.segments)) = seg.paragraph
    /\ Len(seg.paragraph) = seg.max_length => Len(seg.segments) = 1
    /\ (Len(seg.paragraph) = seg.max_length + 1 /\ seg.context_length > 0) =>
          Len(seg.segments) = 2

\* C24: for every paragraph length n, max_length >= 1 and context_length >= 0 the result
\* of segment_paragraph is the list of windows of the reference chunker (one window [0, n)
\* if n <= max_length, else windows at 0, step, 2*step, ... with step =
\* max(1, max_length - context_length), each ending at min(start + max_length, n), the
\* last ending at n); so every window is at most max_length long, windows leave no gap and
\* de-overlapped they concatenate to the paragraph, max_length characters give one segment
\* and max_length + 1 characters give two when context_length > 0.
C24_ReferenceChunker == C24_Returned => (C24_SameWindows /\ C24_Consequences)

\* a call returned at least three overlapping windows
C24_Witness ==
    /\ C24_Returned
    /\ seg.context_length > 0
    /\ Len(seg.segments) >= 3
    /\ seg.segments[2].start < seg.segments[1].end
    /\ seg.segments[Len(seg.segments)].end - seg.segments[Len(seg.segments)].start
          < seg.max_length

\* ---------------------------------------------------------------------------
\* C30: segment_paragraph terminates, with bounded output and increasing offsets

C30_Terminates == <>(seg.pc = "returned")

C30_AtMostLen == Len(seg.segments) <= Len(seg.paragraph)

C30_AtMostLenOrOne ==
    Len(seg.segments) <= (IF Len(seg.paragraph) = 0 THEN 1 ELSE Len(seg.paragraph))

C30_StartsIncrease ==
    \A i \in 1..(Len(seg.segments) - 1) : seg.segments[i].start < seg.segments[i + 1].start

\* C30: segment_paragraph terminates for every paragraph, max_length >= 1 and
\* context_length >= 0, context_length >= max_length included, emits at most
\* len(paragraph) segments, and the start offset strictly increases between segments.
C30_TerminatesWithinLen == C30_Terminates /\ []C30_AtMostLen /\ []C30_StartsIncrease

\* C30 as the code has it: the bound is len(paragraph) for a non-empty paragraph, and the
\* empty paragraph yields its one empty segment.
C30_TerminatesWithinLenOrOne ==
    C30_Terminates /\ []C30_AtMostLenOrOne /\ []C30_StartsIncrease

\* a call with context_length >= max_length returned after stepping one character at a time
C30_Witness ==
    /\ seg.pc = "returned"
    /\ seg.context_length >= seg.max_length
    /\ Len(seg.paragraph) > seg.max_length + 1
    /\ Len(seg.segments) = Len(seg.paragraph) - seg.max_length + 1

\* ---------------------------------------------------------------------------
\* C25: prepare_paragraphs keeps every base paragraph once, in order

C25_Returned == pp.pc = "returned"

\* the base paragraph cut from piece idx of the page
C25_Base(idx) ==
    [text |-> <<idx>>, line_count |-> pp.raw[idx + 1].lines,
     source_indices |-> <<idx>>, is_title |-> pp.raw[idx + 1].title]

C25_BaseIndices == {idx \in 0..(Len(pp.raw) - 1) : ~pp.raw[idx + 1].blank}

RECURSIVE C25_LinesOf(_)
C25_LinesOf(indices) ==
    IF indices = <<>> THEN 0
    ELSE pp.raw[indices[1] + 1].lines + C25_LinesOf(Tail(indices))

RECURSIVE C25_AllIndices(_)
C25_AllIndices(k) ==
    IF k = 0 THEN <<>> ELSE C25_AllIndices(k - 1) \o pp.merged[k].source_indices

C25_Increasing(indices) == \A k \in 1..(Len(indices) - 1) : indices[k] < indices[k + 1]

C25_OnceInOrder ==
    LET all == C25_AllIndices(Len(pp.merged))
    IN  /\ C25_Increasing(all)
        /\ {all[k] : k \in 1..Len(all)} = C25_BaseIndices

C25_LineCounts ==
    \A j \in 1..Len(pp.merged) :
        /\ pp.merged[j].line_count = C25_LinesOf(pp.merged[j].source_indices)
        /\ C25_Increasing(pp.merged[j].source_indices)

C25_TitlesAlone ==
    \A j \in 1..Len(pp.merged) :
        \A k \in 1..Len(pp.merged[j].source_indices) :
            pp.raw[pp.merged[j].source_indices[k] + 1].title =>
                pp.merged[j] = C25_Base(pp.merged[j].source_indices[k])

C25_MergedUntilEnough ==
    \A j \in 1..Len(pp.merged) :
        ~pp.merged[j].is_title =>
            \/ pp.merged[j].line_count >= pp.min_lines
            \/ j = Len(pp.merged)
            \/ pp.merged[j + 1].is_title

\* C25: for every page and every min_lines, every base paragraph is in exactly one output
\* of prepare_paragraphs, in the original order; an output's line_count is the sum of the
\* line_counts of its base paragraphs and its source_indices strictly increase; a title
\* is emitted unchanged and alone; a non-title output reaches min_lines or is followed
\* by a title or by the end of the page.
C25_MergeKeepsParagraphs ==
    C25_Returned =>
        (C25_OnceInOrder /\ C25_LineCounts /\ C25_TitlesAlone /\ C25_MergedUntilEnough)

\* two paragraphs were merged to reach min_lines and a short one was cut off by a title
C25_Witness ==
    /\ C25_Returned
    /\ pp.min_lines > 1
    /\ \E j \in 1..Len(pp.merged) :
          /\ Len(pp.merged[j].source_indices) >= 2
          /\ pp.merged[j].line_count >= pp.min_lines
    /\ \E j \in 1..(Len(pp.merged) - 1) :
          /\ ~pp.merged[j].is_title
          /\ pp.merged[j].line_count < pp.min_lines
          /\ pp.merged[j + 1].is_title

\* ---------------------------------------------------------------------------
\* C26: the totals of a completed run

C26_Completed == tot.pc = "completed"

RECURSIVE C26_Flatten(_)
C26_Flatten(batches) ==
    IF batches = <<>> THEN <<>> ELSE batches[1] \o C26_Flatten(Tail(batches))

C26_Written == C26_Flatten(tot.added)

C26_WrittenRecords == {C26_Written[k].record_id : k \in 1..Len(C26_Written)}

C26_WrittenBooks == {C26_Written[k].book_id : k \in 1..Len(C26_Written)}

C26_Batches ==
    /\ \A b \in 1..Len(tot.added) : Len(tot.added[b]) <= tot.batch_size
    /\ C26_Written = segments_iter(tot.records)

C26_TotalRecords == tot.job.total_records = Cardinality(C26_WrittenRecords)

C26_TotalBooks == tot.job.total_books = Cardinality(C26_WrittenBooks)

C26_TotalSegments == tot.job.total_segments = Len(C26_Written)

\* C26: when a run completes, total_records on its job is the number of records whose
\* documents were written, total_books the number of distinct books among them and
\* total_segments the number of documents added, every batch holding at most batch_size
\* documents and every produced document written exactly once.
C26_TotalsAreFinalCounts ==
    C26_Completed =>
        (C26_TotalRecords /\ C26_TotalBooks /\ C26_TotalSegments /\ C26_Batches)

\* what does hold: books, segments and batching
C26_BooksAndSegments ==
    C26_Completed => (C26_TotalBooks /\ C26_TotalSegments /\ C26_Batches)

\* ---------------------------------------------------------------------------
\* C27: the collection recorded on the job of a completed run

C27_Completed ==
    /\ ingest.pc = "exit 0"
    /\ ingest.job_id # 0
    /\ export_jobs[ingest.job_id].status = "completed"

\* the documents this run added are in the collection its job names
C27_DocumentsInRecorded ==
    \A b \in 1..Len(ingest.written) :
        <<runs, ingest.written[b]>> \in chroma[export_jobs[ingest.job_id].collection].docs

\* C27: for every completed run the collection recorded on its job, and so on the
\* embedding model made from the job, is the collection the run wrote its documents to.
C27_RecordedCollectionIsWritten ==
    C27_Completed =>
        /\ export_jobs[ingest.job_id].collection = ingest.collection
        /\ C27_DocumentsInRecorded

\* ---------------------------------------------------------------------------
\* C28: a rejected query stays hidden

C28_Rejected(q) == query_approvals[q].present /\ query_approvals[q].status = "rejected"

C28_Listed(q) ==
    \E show \in BOOLEAN, limit \in 1..MaxApprovedLimit, min_count \in 0..MaxMinCount :
        q \in get_approved_queries(show, limit, min_count)

C28_Called(ops) == approval_last' # approval_last /\ approval_last'.op \in ops

C28_RejectedNotListed == \A q \in Queries : C28_Rejected(q) => ~C28_Listed(q)

C28_RejectHides ==
    C28_Called({"reject_query"}) =>
        \A q \in Queries : approval_last'.query = q => C28_Rejected(q)'

C28_HiddenUntilApproveOrDelete ==
    \A q \in Queries :
        (C28_Rejected(q) /\ (~C28_Rejected(q)' \/ C28_Listed(q)')) =>
            /\ C28_Called({"approve_query", "delete_query"})
            /\ approval_last'.query = q

C28_SearchKeepsStatus ==
    ~C28_Called({"approve_query", "reject_query", "delete_query"}) =>
        \A q \in Queries :
            query_approvals[q].present =>
                query_approvals'[q] =
                    [query_approvals[q] EXCEPT
                        !.search_count = query_approvals'[q].search_count,
                        !.last_searched_at = query_approvals'[q].last_searched_at]

\* C28: once reject_query(q) has been applied, /approved-queries does not return q in
\* any later state until approve_query(q) or delete_query(q) is called, however many
\* searches of q are recorded in between: recording a search changes only search_count
\* and last_searched_at of an existing row, never its status.
C28_RejectedStaysHidden ==
    /\ []C28_RejectedNotListed
    /\ [][C28_RejectHides /\ C28_HiddenUntilApproveOrDelete /\ C28_SearchKeepsStatus]_vars

\* a query was rejected and then searched twice, while another query is listed
C28_Witness ==
    \E q \in Queries :
        /\ C28_Rejected(q)
        /\ query_approvals[q].search_count >= 2
        /\ query_approvals[q].last_searched_at > query_approvals[q].rejected_at
        /\ \E p \in Queries \ {q} : C28_Listed(p)

\* ---------------------------------------------------------------------------
\* C29: syncing keeps what the admin set

C29_Syncs == sync_last'.op \in {"sync_embedding_models_from_jobs", "get_embedding_models"}

C29_OneRowPerTriple ==
    \A a, b \in 1..Len(model_rows) : model_rows[a].triple = model_rows[b].triple => a = b

\* a sync leaves every existing row as it was but for the three columns that follow the job
C29_SyncFrame ==
    C29_Syncs =>
        \A id \in 1..Len(model_rows) :
            /\ id <= Len(model_rows')
            /\ model_rows'[id] =
                  [model_rows[id] EXCEPT !.job_id = model_rows'[id].job_id,
                                         !.last_completed_job_at =
                                             model_rows'[id].last_completed_job_at,
                                         !.updated_at = model_rows'[id].updated_at]

\* whatever the step, is_active and color change only by the admin's call on that row
C29_AdminOnly ==
    \A id \in 1..Len(model_rows) :
        /\ id <= Len(model_rows')
        /\ model_rows'[id].triple = model_rows[id].triple
        /\ model_rows'[id].is_active # model_rows[id].is_active =>
              sync_last' = [NoSyncCall EXCEPT !.op = "set_embedding_model_active",
                                              !.model_id = id]
        /\ model_rows'[id].color # model_rows[id].color =>
              sync_last' = [NoSyncCall EXCEPT !.op = "update_embedding_model_color",
                                              !.model_id = id]

\* a synced row points at the latest completed job of its triple
C29_FollowsLatestJob ==
    C29_Syncs =>
        \A id \in 1..Len(model_rows') :
            (id > Len(model_rows) \/ model_rows'[id] # model_rows[id]) =>
                /\ model_rows'[id].job_id \in LatestJobs
                /\ completed_jobs[model_rows'[id].job_id].triple = model_rows'[id].triple
                /\ model_rows'[id].last_completed_job_at =
                      completed_jobs[model_rows'[id].job_id].completed_at

\* C29: sync_embedding_models_from_jobs never changes is_active or color of an existing
\* row and never makes a second row for a (provider, model, collection); after any
\* sequence of toggles, color updates, completed jobs and syncs, model listings included,
\* a deactivated model is still inactive with its admin-chosen color, and only job_id,
\* last_completed_job_at and updated_at follow the latest completed job.
C29_SyncKeepsAdminChoices ==
    /\ []C29_OneRowPerTriple
    /\ [][C29_SyncFrame /\ C29_AdminOnly /\ C29_FollowsLatestJob]_vars

\* a model deactivated and re-colored by the admin was then re-synced to a newer job of
\* its triple by a listing, next to a second model
C29_Witness ==
    /\ sync_last.op = "get_embedding_models"
    /\ Len(model_rows) = 2
    /\ ~model_rows[1].is_active
    /\ model_rows[1].color.kind = "admin"
    /\ model_rows[1].job_id > 1
    /\ model_rows[1].updated_at > model_rows[1].created_at
    /\ model_rows[1].last_completed_job_at = completed_jobs[model_rows[1].job_id].completed_at

====
